---- MODULE Spec2Model ----
(***************************************************************************)
(* Model of the header-value grammar engine of httptypes:                  *)
(*   - the comma-separated list tokenizer IterListHeader,                  *)
(*   - the helpers parse_value, parse_list0 and parse_list1,               *)
(*   - Quality<T> / Weight parsing and formatting.                         *)
(* Byte strings are sequences of byte values (0..255).  The code indexes   *)
(* from 0; the model keeps the code's 0-based line and column numbers and  *)
(* adds 1 where a TLA+ sequence is indexed.                                *)
(***************************************************************************)
EXTENDS Integers, Sequences, FiniteSets, TLC

VARIABLES
    values,     \* &[Vec<u8>]: the raw lines handed to the tokenizer / helpers
    line,       \* IterListHeader.line
    column,     \* IterListHeader.column
    yielded,    \* the slices returned by next() so far, as (line, start, end)
    exhausted,  \* next() has returned None
    extra,      \* number of next() calls made after the first None
    ty,         \* the element type T the generic helper is instantiated with
    op,         \* the helper called last
    res,        \* what it returned
    build,      \* "debug" (overflow checks on) or "release" (wrapping)
    qin,        \* the parts a quality element handed to from_str is made of
    qsrc,       \* the Quality value handed to fmt first, if any
    qtext,      \* the text parsed by from_str / written by the first fmt
    qres,       \* the result of Quality::from_str(qtext)
    qtext2,     \* the text written by fmt for the parsed value
    qop,        \* the Quality operation done last
    wn,         \* the u16 handed to a Weight / Quality constructor
    wop,        \* the constructor called last
    wres,       \* what it returned: a Weight, a Quality, or a panic
    etags,      \* the EntityTag values that exist
    eop,        \* the EntityTag operation done last
    eout,       \* its outcome: "ok", "err" or "panic"
    ecmp,       \* the results of comparing every pair of etags
    ein,        \* the text handed to EntityTag::from_str
    eres,       \* what EntityTag::from_str returned
    etext,      \* the text Display::fmt wrote for the tag parsed
    sty,        \* the element type T of the value being serialized
    svalues,    \* the values handed to the serialize helper
    sop,        \* the serialize helper running or run last
    scalls,     \* the calls on the iterator and the sink it has yet to make
    snext,      \* how many times the sink iterator's next() was called
    scur,       \* the sink held (its number in the order taken), 0 for none
    sout,       \* the bytes each sink received
    swrites,    \* how many writes were made to sinks
    sfail,      \* the write the sink fails, 0 when it fails none
    sres,       \* what the helper returned
    slog,       \* the calls made so far, in order
    cin,        \* the text handed to Coding::from_str
    cop,        \* the Coding operation done last
    cres,       \* what Coding::from_str returned
    ctext,      \* what Display::fmt wrote for the Coding parsed
    cres2,      \* what Coding::from_str returned for ctext
    pwin,       \* the text handed to parse_weight
    pwop,       \* whether parse_weight was called
    pwres       \* what parse_weight did

iterVars == <<line, column, yielded, exhausted, extra>>
parseVars == <<ty, op, res>>
qVars == <<build, qin, qsrc, qtext, qres, qtext2, qop>>

wVars == <<wn, wop, wres>>
eVars == <<etags, eop, eout, ecmp, ein, eres, etext>>
otherVars == <<wVars, eVars>>
sVars == <<sty, svalues, sop, scalls, snext, scur, sout, swrites, sfail, sres, slog>>
cVars == <<cin, cop, cres, ctext, cres2>>
pVars == <<pwin, pwop, pwres>>
newVars == <<sVars, cVars, pVars>>

vars == <<values, iterVars, parseVars, qVars, otherVars, newVars>>

----------------------------------------------------------------------------
(* Bounds of the model *)

MaxLines == 2
MaxBytes == 4
MaxExtraCalls == 1
MaxFrac == 4
MaxOver == 2
MaxETagLen == 5
MaxTags == 3
MaxTagLen == 1
MaxPieces == 3
MaxElems == 2
MaxFail == 4
MaxCodingLen == 3
MaxBuiltLen == 2
MaxDigits == 5

----------------------------------------------------------------------------
(* Bytes *)

SP == 32
TAB == 9
COMMA == 44

\* a content byte, a byte that is never valid UTF-8, and the three bytes
\* the tokenizer treats specially
Alphabet == {SP, TAB, COMMA, 97, 255}

None == -1

----------------------------------------------------------------------------
(* Inputs: every sequence of at most MaxLines lines with at most MaxBytes  *)
(* bytes in total, and the inputs the documentation names.                 *)

RECURSIVE SumLens(_, _)
SumLens(lens, k) == IF k = 0 THEN 0 ELSE lens[k] + SumLens(lens, k - 1)

ByteStrings(n) == UNION {[1..m -> Alphabet] : m \in 0..n}

\* cut the byte string bs into lines of the lengths lens[1], lens[2], ...
Cut(bs, lens) ==
    [i \in 1..Len(lens) |-> SubSeq(bs, SumLens(lens, i - 1) + 1, SumLens(lens, i))]

BoundedInputs ==
    {Cut(c[1], c[2]) :
        c \in {d \in ByteStrings(MaxBytes) \X UNION {[1..k -> 0..MaxBytes] : k \in 0..MaxLines} :
                    SumLens(d[2], Len(d[2])) = Len(d[1])}}

Ex_abc == << <<97, 44, 32, 98, 32, 44, 99>> >>          \* ["a, b ,c"]
Ex_a_b == << <<97, 44>>, <<98>> >>                      \* ["a,", "b"]
Ex_blank == << <<32, 44, 32, 44, 32>> >>                \* [" , , "]
Ex_get == << <<71, 69, 84, 44, 32, 97>>, <<71, 69, 84>> >>  \* ["GET, a", "GET"]
Ex_utf8 == << <<195, 169, 44, 195>> >>                  \* ["\xC3\xA9,\xC3"]

Examples == {Ex_abc, Ex_a_b, Ex_blank, Ex_get, Ex_utf8}

Inputs == BoundedInputs \cup Examples

----------------------------------------------------------------------------
(* IterListHeader::next *)

\* ScanByte with the tab test left out of the first condition
ScanByte_TabIsContent(byte, col, start, end) ==
    IF byte # SP /\ byte # COMMA
    THEN [ret |-> FALSE, column |-> col,
          start |-> IF start = None THEN col ELSE start, end |-> col + 1]
    ELSE IF byte = COMMA
         THEN IF start # None
              THEN [ret |-> TRUE, column |-> col + 1, start |-> start, end |-> end]
              ELSE [ret |-> FALSE, column |-> col, start |-> None, end |-> end]
         ELSE [ret |-> FALSE, column |-> col, start |-> start, end |-> end]

\* ScanByte returning the slice up to and including the comma
ScanByte_SliceToComma(byte, col, start, end) ==
    IF byte # SP /\ byte # TAB /\ byte # COMMA
    THEN [ret |-> FALSE, column |-> col,
          start |-> IF start = None THEN col ELSE start, end |-> col + 1]
    ELSE IF byte = COMMA
         THEN IF start # None
              THEN [ret |-> TRUE, column |-> col + 1, start |-> start, end |-> col + 1]
              ELSE [ret |-> FALSE, column |-> col, start |-> None, end |-> end]
         ELSE [ret |-> FALSE, column |-> col, start |-> start, end |-> end]

\* One pass of the inner loop body on the byte at `column`.
\* st = [ret, column, start, end]: ret is TRUE when the body returned a
\* slice; column is then the new self.column.
ScanByte(byte, col, start, end) ==
    IF byte # SP /\ byte # TAB /\ byte # COMMA
    THEN [ret |-> FALSE, column |-> col,
          start |-> IF start = None THEN col ELSE start, end |-> col + 1]
    ELSE IF byte = COMMA
         THEN IF start # None
              THEN [ret |-> TRUE, column |-> col + 1, start |-> start, end |-> end]
              ELSE [ret |-> FALSE, column |-> col, start |-> None, end |-> end]
         ELSE [ret |-> FALSE, column |-> col, start |-> start, end |-> end]

\* for column in self.column..value.len()
RECURSIVE ScanColumns(_, _, _, _)
ScanColumns(value, col, start, end) ==
    IF col >= Len(value)
    THEN [ret |-> FALSE, column |-> col, start |-> start, end |-> end]
    ELSE LET st == ScanByte(value[col + 1], col, start, end) IN
         IF st.ret THEN st ELSE ScanColumns(value, col + 1, st.start, st.end)

NoItem == [line |-> None, start |-> 0, end |-> 0]

\* LineEnd leaving the column where the pending element ended
LineEnd_KeepColumn(ln, start, end) ==
    [some |-> start # None, line |-> ln + 1, column |-> end,
     item |-> IF start # None THEN [line |-> ln, start |-> start, end |-> end]
              ELSE NoItem]

\* LineEnd forgetting the element that is pending at the end of the line
LineEnd_NoFlush(ln, start, end) ==
    [some |-> FALSE, line |-> ln + 1, column |-> 0, item |-> NoItem]

\* The code after the inner loop: the line is finished, the cursor moves to
\* the next line and a pending element is returned.
LineEnd(ln, start, end) ==
    [some |-> start # None, line |-> ln + 1, column |-> 0,
     item |-> IF start # None THEN [line |-> ln, start |-> start, end |-> end]
              ELSE NoItem]

\* for line in self.line..self.values.len()
RECURSIVE ScanLines(_, _, _)
ScanLines(vals, ln, col) ==
    IF ln >= Len(vals)
    THEN [some |-> FALSE, line |-> ln, column |-> col, item |-> NoItem]
    ELSE LET st == ScanColumns(vals[ln + 1], col, None, 0) IN
         IF st.ret
         THEN [some |-> TRUE, line |-> ln, column |-> st.column,
               item |-> [line |-> ln, start |-> st.start, end |-> st.end]]
         ELSE LET le == LineEnd(ln, st.start, st.end) IN
              IF le.some THEN le ELSE ScanLines(vals, le.line, le.column)

\* next(): the new cursor and the Option returned
IterListHeader_next(vals, ln, col) == ScanLines(vals, ln, col)

\* &value[start..end]
Slice(vals, item) == SubSeq(vals[item.line + 1], item.start + 1, item.end)

\* every element the iterator yields from a fresh IterListHeader::new(vals)
RECURSIVE Collect(_, _, _)
Collect(vals, ln, col) ==
    LET r == IterListHeader_next(vals, ln, col) IN
    IF r.some THEN <<r.item>> \o Collect(vals, r.line, r.column) ELSE <<>>

Tokens(vals) == LET its == Collect(vals, 0, 0) IN
                [i \in 1..Len(its) |-> Slice(vals, its[i])]

----------------------------------------------------------------------------
(* str::from_utf8: whether a byte string is well-formed UTF-8 *)

IsCont(b) == b >= 128 /\ b <= 191

RECURSIVE IsUtf8(_)
IsUtf8(s) ==
    IF s = <<>> THEN TRUE
    ELSE LET b == s[1]
             n == Len(s)
             rest(k) == SubSeq(s, k + 1, n)
         IN
         IF b < 128 THEN IsUtf8(rest(1))
         ELSE IF b >= 194 /\ b <= 223
              THEN n >= 2 /\ IsCont(s[2]) /\ IsUtf8(rest(2))
         ELSE IF b >= 224 /\ b <= 239
              THEN /\ n >= 3
                   /\ IsCont(s[2]) /\ IsCont(s[3])
                   /\ (b = 224 => s[2] >= 160)
                   /\ (b = 237 => s[2] <= 159)
                   /\ IsUtf8(rest(3))
         ELSE IF b >= 240 /\ b <= 244
              THEN /\ n >= 4
                   /\ IsCont(s[2]) /\ IsCont(s[3]) /\ IsCont(s[4])
                   /\ (b = 240 => s[2] >= 144)
                   /\ (b = 244 => s[2] <= 143)
                   /\ IsUtf8(rest(4))
         ELSE FALSE

----------------------------------------------------------------------------
(* Results: Result<T, ()> *)

Ok(v) == [ok |-> TRUE, val |-> v]
Err == [ok |-> FALSE]

----------------------------------------------------------------------------
(* util::is_token and Method::from_str *)

is_tchar(c) ==
    \/ c \in {33, 35, 36, 37, 38, 39, 42, 43, 45, 46, 94, 95, 96, 124, 126}
    \/ (c >= 48 /\ c <= 57)
    \/ (c >= 65 /\ c <= 90)
    \/ (c >= 97 /\ c <= 122)

is_token(s) ==
    IF s = <<>> THEN FALSE ELSE \A i \in 1..Len(s) : is_tchar(s[i])

MAPPING == <<
    [method |-> "Acl", name |-> <<65, 67, 76>>, safe |-> FALSE, idempotent |-> TRUE],
    [method |-> "BaselineControl", name |-> <<66, 65, 83, 69, 76, 73, 78, 69, 45, 67, 79, 78, 84, 82, 79, 76>>, safe |-> FALSE, idempotent |-> TRUE],
    [method |-> "Bind", name |-> <<66, 73, 78, 68>>, safe |-> FALSE, idempotent |-> TRUE],
    [method |-> "Checkin", name |-> <<67, 72, 69, 67, 75, 73, 78>>, safe |-> FALSE, idempotent |-> TRUE],
    [method |-> "Checkout", name |-> <<67, 72, 69, 67, 75, 79, 85, 84>>, safe |-> FALSE, idempotent |-> TRUE],
    [method |-> "Connect", name |-> <<67, 79, 78, 78, 69, 67, 84>>, safe |-> FALSE, idempotent |-> FALSE],
    [method |-> "Copy", name |-> <<67, 79, 80, 89>>, safe |-> FALSE, idempotent |-> TRUE],
    [method |-> "Delete", name |-> <<68, 69, 76, 69, 84, 69>>, safe |-> FALSE, idempotent |-> TRUE],
    [method |-> "Get", name |-> <<71, 69, 84>>, safe |-> TRUE, idempotent |-> TRUE],
    [method |-> "Head", name |-> <<72, 69, 65, 68>>, safe |-> TRUE, idempotent |-> TRUE],
    [method |-> "Label", name |-> <<76, 65, 66, 69, 76>>, safe |-> FALSE, idempotent |-> TRUE],
    [method |-> "Link", name |-> <<76, 73, 78, 75>>, safe |-> FALSE, idempotent |-> TRUE],
    [method |-> "Lock", name |-> <<76, 79, 67, 75>>, safe |-> FALSE, idempotent |-> FALSE],
    [method |-> "Merge", name |-> <<77, 69, 82, 71, 69>>, safe |-> FALSE, idempotent |-> TRUE],
    [method |-> "Mkactivity", name |-> <<77, 75, 65, 67, 84, 73, 86, 73, 84, 89>>, safe |-> FALSE, idempotent |-> TRUE],
    [method |-> "Mkcalendar", name |-> <<77, 75, 67, 65, 76, 69, 78, 68, 65, 82>>, safe |-> FALSE, idempotent |-> TRUE],
    [method |-> "Mkcol", name |-> <<77, 75, 67, 79, 76>>, safe |-> FALSE, idempotent |-> TRUE],
    [method |-> "Mkredirectref", name |-> <<77, 75, 82, 69, 68, 73, 82, 69, 67, 84, 82, 69, 70>>, safe |-> FALSE, idempotent |-> TRUE],
    [method |-> "Mkworkspace", name |-> <<77, 75, 87, 79, 82, 75, 83, 80, 65, 67, 69>>, safe |-> FALSE, idempotent |-> TRUE],
    [method |-> "Move", name |-> <<77, 79, 86, 69>>, safe |-> FALSE, idempotent |-> TRUE],
    [method |-> "Options", name |-> <<79, 80, 84, 73, 79, 78, 83>>, safe |-> TRUE, idempotent |-> TRUE],
    [method |-> "Orderpatch", name |-> <<79, 82, 68, 69, 82, 80, 65, 84, 67, 72>>, safe |-> FALSE, idempotent |-> TRUE],
    [method |-> "Patch", name |-> <<80, 65, 84, 67, 72>>, safe |-> FALSE, idempotent |-> FALSE],
    [method |-> "Post", name |-> <<80, 79, 83, 84>>, safe |-> FALSE, idempotent |-> FALSE],
    [method |-> "Pri", name |-> <<80, 82, 73>>, safe |-> TRUE, idempotent |-> TRUE],
    [method |-> "Propfind", name |-> <<80, 82, 79, 80, 70, 73, 78, 68>>, safe |-> TRUE, idempotent |-> TRUE],
    [method |-> "Proppatch", name |-> <<80, 82, 79, 80, 80, 65, 84, 67, 72>>, safe |-> FALSE, idempotent |-> TRUE],
    [method |-> "Put", name |-> <<80, 85, 84>>, safe |-> FALSE, idempotent |-> TRUE],
    [method |-> "Rebind", name |-> <<82, 69, 66, 73, 78, 68>>, safe |-> FALSE, idempotent |-> TRUE],
    [method |-> "Report", name |-> <<82, 69, 80, 79, 82, 84>>, safe |-> TRUE, idempotent |-> TRUE],
    [method |-> "Search", name |-> <<83, 69, 65, 82, 67, 72>>, safe |-> TRUE, idempotent |-> TRUE],
    [method |-> "Trace", name |-> <<84, 82, 65, 67, 69>>, safe |-> TRUE, idempotent |-> TRUE],
    [method |-> "Unbind", name |-> <<85, 78, 66, 73, 78, 68>>, safe |-> FALSE, idempotent |-> TRUE],
    [method |-> "Uncheckout", name |-> <<85, 78, 67, 72, 69, 67, 75, 79, 85, 84>>, safe |-> FALSE, idempotent |-> TRUE],
    [method |-> "Unlink", name |-> <<85, 78, 76, 73, 78, 75>>, safe |-> FALSE, idempotent |-> TRUE],
    [method |-> "Unlock", name |-> <<85, 78, 76, 79, 67, 75>>, safe |-> FALSE, idempotent |-> TRUE],
    [method |-> "Update", name |-> <<85, 80, 68, 65, 84, 69>>, safe |-> FALSE, idempotent |-> TRUE],
    [method |-> "Updateredirectref", name |-> <<85, 80, 68, 65, 84, 69, 82, 69, 68, 73, 82, 69, 67, 84, 82, 69, 70>>, safe |-> FALSE, idempotent |-> TRUE],
    [method |-> "VersionControl", name |-> <<86, 69, 82, 83, 73, 79, 78, 45, 67, 79, 78, 84, 82, 79, 76>>, safe |-> FALSE, idempotent |-> TRUE] >>

Method_from_str(s) ==
    IF \E i \in 1..Len(MAPPING) : MAPPING[i].name = s
    THEN LET i == CHOOSE j \in 1..Len(MAPPING) :
                      MAPPING[j].name = s /\ \A k \in 1..(j - 1) : MAPPING[k].name # s
         IN Ok([method |-> MAPPING[i].method, s |-> <<>>])
    ELSE IF is_token(s) THEN Ok([method |-> "Unregistered", s |-> s])
    ELSE Err

\* impl FromStr for String (std): the identity, never fails
String_from_str(s) == Ok(s)

----------------------------------------------------------------------------
(* item::Coding *)

to_ascii_lowercase(c) == IF c >= 65 /\ c <= 90 THEN c + 32 ELSE c

\* a comparison that does not fold the case
eq_ignore_ascii_case_Exact(a, b) == a = b

eq_ignore_ascii_case(a, b) ==
    /\ Len(a) = Len(b)
    /\ \A i \in 1..Len(a) : to_ascii_lowercase(a[i]) = to_ascii_lowercase(b[i])

\* the arms of the match in Coding::from_str, in order
CodingNames == <<
    [coding |-> "Br", name |-> <<98, 114>>],
    [coding |-> "Compress", name |-> <<99, 111, 109, 112, 114, 101, 115, 115>>],
    [coding |-> "Compress", name |-> <<120, 45, 99, 111, 109, 112, 114, 101, 115, 115>>],
    [coding |-> "Deflate", name |-> <<100, 101, 102, 108, 97, 116, 101>>],
    [coding |-> "Exi", name |-> <<101, 120, 105>>],
    [coding |-> "Gzip", name |-> <<103, 122, 105, 112>>],
    [coding |-> "Gzip", name |-> <<120, 45, 103, 122, 105, 112>>],
    [coding |-> "Identity", name |-> <<105, 100, 101, 110, 116, 105, 116, 121>>],
    [coding |-> "Pack200Gzip", name |-> <<112, 97, 99, 107, 50, 48, 48, 45, 103, 122, 105, 112>>] >>

\* the arms of the match in Coding::fmt
CodingDisplay == <<
    [coding |-> "Br", name |-> <<98, 114>>],
    [coding |-> "Compress", name |-> <<99, 111, 109, 112, 114, 101, 115, 115>>],
    [coding |-> "Deflate", name |-> <<100, 101, 102, 108, 97, 116, 101>>],
    [coding |-> "Exi", name |-> <<101, 120, 105>>],
    [coding |-> "Gzip", name |-> <<103, 122, 105, 112>>],
    [coding |-> "Identity", name |-> <<105, 100, 101, 110, 116, 105, 116, 121>>],
    [coding |-> "Pack200Gzip", name |-> <<112, 97, 99, 107, 50, 48, 48, 45, 103, 122, 105, 112>>] >>

Coding_from_str(s) ==
    IF \E i \in 1..Len(CodingNames) : eq_ignore_ascii_case(s, CodingNames[i].name)
    THEN LET i == CHOOSE j \in 1..Len(CodingNames) :
                      /\ eq_ignore_ascii_case(s, CodingNames[j].name)
                      /\ \A k \in 1..(j - 1) : ~eq_ignore_ascii_case(s, CodingNames[k].name)
         IN Ok([coding |-> CodingNames[i].coding, s |-> <<>>])
    ELSE Ok([coding |-> "Unregistered", s |-> s])

\* <Coding as PartialEq>::eq
Coding_eq(self, other) ==
    IF self.coding = "Unregistered" /\ other.coding = "Unregistered"
    THEN eq_ignore_ascii_case(self.s, other.s)
    ELSE self.coding = other.coding

Coding_fmt(c) ==
    IF c.coding = "Unregistered" THEN c.s
    ELSE LET i == CHOOSE j \in 1..Len(CodingDisplay) : CodingDisplay[j].coding = c.coding
         IN CodingDisplay[i].name

----------------------------------------------------------------------------
(* item::Weight, item::Quality<T> with T = Coding *)

SEMICOLON == 59
DOT == 46
DIGIT0 == 48
DIGIT1 == 49
DIGIT9 == 57
WeightMax == 1000
U16 == 65536

Panic == [ok |-> FALSE, panic |-> TRUE]

\* Weight::new without the assertion
Weight_new_NoAssert(n) == Ok(n)

\* Weight::new: the assertion aborts the call
Weight_new(n) == IF n <= WeightMax THEN Ok(n) ELSE Panic

\* <Weight as From<u16>>::from
Weight_from(n) == Weight_new(n)

\* Quality::new(item, weight) with a u16 as weight: weight.into()
Quality_new(item, n) ==
    LET w == Weight_from(n) IN
    IF w.ok THEN Ok([item |-> item, weight |-> w.val]) ELSE Panic

\* Quality::new(item, weight) with a Weight as weight: into() is the identity
Quality_new_weight(item, w) == Ok([item |-> item, weight |-> w])

\* <Quality<T> as From<T>>::from
Quality_from(t) ==
    LET w == Weight_new(1000) IN
    IF w.ok THEN Ok([item |-> t, weight |-> w.val]) ELSE Panic

\* str::trim on ASCII text: the ASCII White_Space characters
IsWhitespace(c) == c \in {9, 10, 11, 12, 13, 32}

RECURSIVE StrTrimLeft(_)
StrTrimLeft(s) ==
    IF s # <<>> /\ IsWhitespace(Head(s)) THEN StrTrimLeft(Tail(s)) ELSE s

RECURSIVE StrTrimRight(_)
StrTrimRight(s) ==
    IF s # <<>> /\ IsWhitespace(s[Len(s)])
    THEN StrTrimRight(SubSeq(s, 1, Len(s) - 1)) ELSE s

StrTrim(s) == StrTrimRight(StrTrimLeft(s))

starts_with(s, prefix) ==
    Len(s) >= Len(prefix) /\ SubSeq(s, 1, Len(prefix)) = prefix

\* the loop of the '0' '.' arm of parse_weight over the characters from
\* index i on; weight is a u16: an overflowing  *= or += aborts a build
\* with overflow checks and wraps in a build without
RECURSIVE WeightDigits(_, _, _, _)
WeightDigits(s, i, weight, bld) ==
    IF i > Len(s) THEN [kind |-> "some", val |-> weight]
    ELSE LET char == s[i] IN
         IF char <= DIGIT0 \/ char >= DIGIT9 THEN [kind |-> "none", val |-> 0]
         ELSE LET w == weight * 10 + (char - DIGIT0) IN
              IF w >= U16 /\ bld = "debug" THEN [kind |-> "panic", val |-> 0]
              ELSE WeightDigits(s, i + 1, w % U16, bld)

\* the for loop of the '1' '.' arm
AllZero(s, i) == \A k \in i..Len(s) : s[k] = DIGIT0

parse_weight(s, bld) ==
    IF Len(s) >= 1 /\ s[1] = DIGIT0
    THEN IF Len(s) = 1 THEN [kind |-> "some", val |-> 0]
         ELSE IF s[2] = DOT THEN WeightDigits(s, 3, 0, bld)
         ELSE [kind |-> "none", val |-> 0]
    ELSE IF Len(s) >= 1 /\ s[1] = DIGIT1
    THEN IF Len(s) = 1 THEN [kind |-> "some", val |-> WeightMax]
         ELSE IF s[2] = DOT
              THEN IF AllZero(s, 3) THEN [kind |-> "some", val |-> WeightMax]
                   ELSE [kind |-> "none", val |-> 0]
         ELSE [kind |-> "none", val |-> 0]
    ELSE [kind |-> "none", val |-> 0]

\* the index of the last ';' of s, 0 when there is none
LastSemicolon(s) ==
    IF \E i \in 1..Len(s) : s[i] = SEMICOLON
    THEN CHOOSE i \in 1..Len(s) :
             s[i] = SEMICOLON /\ \A k \in (i + 1)..Len(s) : s[k] # SEMICOLON
    ELSE 0

QEQ == <<113, 61>>
UQEQ == <<81, 61>>

\* Quality::<Coding>::from_str
Quality_from_str(s, bld) ==
    LET k == LastSemicolon(s)
        \* s.rsplitn(2, ';').map(|x| x.trim())
        first == StrTrim(SubSeq(s, k + 1, Len(s)))
        has_second == k > 0
        second == StrTrim(SubSeq(s, 1, k - 1))
        \* raw_weight is None when there was no ';'
        has_weight == has_second
        raw_weight == first
        raw_item == IF has_second THEN second ELSE first
        item == Coding_from_str(raw_item)
        bare == IF item.ok THEN Ok([item |-> item.val, weight |-> WeightMax]) ELSE Err
    IN
    IF has_weight /\ (starts_with(raw_weight, QEQ) \/ starts_with(raw_weight, UQEQ))
                  /\ Len(raw_weight) - 2 <= 5
    THEN LET pw == parse_weight(s, bld) IN
         IF pw.kind = "panic" THEN Panic
         ELSE IF pw.kind = "some"
         THEN IF ~item.ok THEN Err
              ELSE LET w == Weight_new(pw.val) IN
                   IF w.ok THEN Ok([item |-> item.val, weight |-> w.val]) ELSE Panic
         ELSE Err
    ELSE bare

\* format!("{:03}", weight).trim_right_matches('0')
RECURSIVE trim_right_matches(_, _)
trim_right_matches(s, c) ==
    IF s # <<>> /\ s[Len(s)] = c THEN trim_right_matches(SubSeq(s, 1, Len(s) - 1), c)
    ELSE s

\* format!("{}", weight): no zero padding
Format03_NoPad(n) ==
    IF n >= 100
    THEN <<DIGIT0 + (n \div 100), DIGIT0 + ((n \div 10) % 10), DIGIT0 + (n % 10)>>
    ELSE IF n >= 10 THEN <<DIGIT0 + (n \div 10), DIGIT0 + (n % 10)>>
    ELSE <<DIGIT0 + n>>

Format03(n) ==
    IF n >= 1000
    THEN <<DIGIT0 + ((n \div 1000) % 10), DIGIT0 + ((n \div 100) % 10),
           DIGIT0 + ((n \div 10) % 10), DIGIT0 + (n % 10)>>
    ELSE <<DIGIT0 + (n \div 100), DIGIT0 + ((n \div 10) % 10), DIGIT0 + (n % 10)>>

\* Quality::<Coding>::fmt: the text written
Quality_fmt(q) ==
    LET weight == q.weight IN
    Coding_fmt(q.item) \o
        (IF weight = 0 THEN <<SEMICOLON, SP>> \o QEQ \o <<DIGIT0>>
         ELSE IF weight < 1000
              THEN <<SEMICOLON, SP>> \o QEQ \o <<DIGIT0, DOT>>
                      \o trim_right_matches(Format03(weight), DIGIT0)
         ELSE <<>>)

----------------------------------------------------------------------------
(* item::EntityTag *)

DQUOTE == 34
WEAK_PREFIX == <<87, 47, 34>>                           \* W/"

check_slice_validity(slice) ==
    \A i \in 1..Len(slice) :
        LET c == slice[i] IN c = 33 \/ (c >= 35 /\ c <= 126) \/ c >= 128

\* EntityTag::new: the assertion aborts the call
EntityTag_new(weak, tag) ==
    IF check_slice_validity(tag) THEN Ok([weak |-> weak, tag |-> tag]) ELSE Panic

EntityTag_weak(tag) == EntityTag_new(TRUE, tag)

EntityTag_strong(tag) == EntityTag_new(FALSE, tag)

\* set_tag storing the tag before the assertion is evaluated
set_tag_AssignFirst(self, tag) ==
    IF check_slice_validity(tag)
    THEN [panic |-> FALSE, self |-> [weak |-> self.weak, tag |-> tag]]
    ELSE [panic |-> TRUE, self |-> [weak |-> self.weak, tag |-> tag]]

\* EntityTag::set_tag: whether the call panicked, and self after it
set_tag(self, tag) ==
    IF check_slice_validity(tag)
    THEN [panic |-> FALSE, self |-> [weak |-> self.weak, tag |-> tag]]
    ELSE [panic |-> TRUE, self |-> self]

\* strong_eq that does not look at the weak flag of other
strong_eq_OtherIgnored(self, other) == ~self.weak /\ self.tag = other.tag

\* strong_eq comparing the tags only
strong_eq_TagsOnly(self, other) == self.tag = other.tag

strong_eq(self, other) == ~self.weak /\ ~other.weak /\ self.tag = other.tag

weak_eq(self, other) == self.tag = other.tag

strong_ne(self, other) == ~strong_eq(self, other)

weak_ne(self, other) == ~weak_eq(self, other)

\* #[derive(PartialEq)]: field by field
EntityTag_eq(self, other) == self.weak = other.weak /\ self.tag = other.tag

\* fmt writing every tag as a strong one
EntityTag_fmt_NoWeakMark(self) == <<DQUOTE>> \o self.tag \o <<DQUOTE>>

EntityTag_fmt(self) ==
    IF self.weak THEN WEAK_PREFIX \o self.tag \o <<DQUOTE>>
    ELSE <<DQUOTE>> \o self.tag \o <<DQUOTE>>

ends_with(s, suffix) ==
    Len(s) >= Len(suffix) /\ SubSeq(s, Len(s) - Len(suffix) + 1, Len(s)) = suffix

\* from_str accepting any prefix that ends in a double quote as the weak mark
EntityTag_from_str_AnyPrefix(s) ==
    LET length == Len(s) IN
    IF ~ends_with(s, <<DQUOTE>>) THEN Err
    ELSE IF starts_with(s, <<DQUOTE>>)
    THEN IF 1 > length - 1 THEN Panic
         ELSE IF check_slice_validity(SubSeq(s, 2, length - 1))
         THEN Ok([weak |-> FALSE, tag |-> SubSeq(s, 2, length - 1)])
         ELSE Err
    ELSE IF length >= 3 /\ s[3] = DQUOTE
    THEN IF 3 > length - 1 THEN Panic
         ELSE IF check_slice_validity(SubSeq(s, 4, length - 1))
         THEN Ok([weak |-> TRUE, tag |-> SubSeq(s, 4, length - 1)])
         ELSE Err
    ELSE Err

\* EntityTag::from_str; &slice[a..b] panics when a > b
EntityTag_from_str(s) ==
    LET length == Len(s) IN
    IF ~ends_with(s, <<DQUOTE>>) THEN Err
    ELSE IF starts_with(s, <<DQUOTE>>)
    THEN IF 1 > length - 1 THEN Panic
         ELSE IF check_slice_validity(SubSeq(s, 2, length - 1))
         THEN Ok([weak |-> FALSE, tag |-> SubSeq(s, 2, length - 1)])
         ELSE IF starts_with(s, WEAK_PREFIX)
              THEN IF 3 > length - 1 THEN Panic
                   ELSE IF check_slice_validity(SubSeq(s, 4, length - 1))
                   THEN Ok([weak |-> TRUE, tag |-> SubSeq(s, 4, length - 1)])
                   ELSE Err
              ELSE Err
    ELSE IF starts_with(s, WEAK_PREFIX)
    THEN IF 3 > length - 1 THEN Panic
         ELSE IF check_slice_validity(SubSeq(s, 4, length - 1))
         THEN Ok([weak |-> TRUE, tag |-> SubSeq(s, 4, length - 1)])
         ELSE Err
    ELSE Err

----------------------------------------------------------------------------
(* The element types and x.parse::<T>() *)

\* the element types the helpers are instantiated with
Types == {"Method", "String"}

\* x.parse::<T>()
FromStr(t, s) ==
    CASE t = "Method" -> Method_from_str(s)
      [] t = "String" -> String_from_str(s)
      [] t = "EntityTag" -> EntityTag_from_str(s)
      [] t = "Quality" -> Quality_from_str(s, build)

----------------------------------------------------------------------------
(* parse_value, parse_list0, parse_list1 *)

\* str::from_utf8(x).ok().and_then(|x| x.parse().ok()); a from_str that
\* panics aborts the helper that called it
ParseBytes(x, t) == IF IsUtf8(x) THEN FromStr(t, x) ELSE Err

\* parse_value without the upper bound on the number of lines
parse_value_FirstLine(s, t) ==
    IF Len(s) = 0 THEN Err ELSE ParseBytes(s[1], t)

parse_value(s, t) ==
    IF Len(s) # 1 THEN Err ELSE ParseBytes(s[1], t)

\* iter.map(..).collect::<Option<Vec<T>>>(): the iterator is advanced until
\* it is exhausted or an element maps to None
RECURSIVE CollectOption(_, _, _, _, _)
CollectOption(s, ln, col, t, acc) ==
    LET r == IterListHeader_next(s, ln, col) IN
    IF ~r.some THEN Ok(acc)
    ELSE LET p == ParseBytes(Slice(s, r.item), t) IN
         IF p.ok THEN CollectOption(s, r.line, r.column, t, Append(acc, p.val))
         ELSE p

\* parse_list0 with filter_map in place of map: bad elements are dropped
parse_list0_SkipInvalid(s, t) ==
    LET els == Tokens(s)
        good(x) == ParseBytes(x, t).ok
        kept == SelectSeq(els, good)
    IN Ok([i \in 1..Len(kept) |-> ParseBytes(kept[i], t).val])

parse_list0(s, t) == CollectOption(s, 0, 0, t, <<>>)

\* parse_list1 without the is_empty test
parse_list1_NoEmptyCheck(s, t) ==
    LET list == parse_list0(s, t) IN
    list

parse_list1(s, t) ==
    LET list == parse_list0(s, t) IN
    IF ~list.ok THEN list
    ELSE IF list.val = <<>> THEN Err
    ELSE list

----------------------------------------------------------------------------
(* parse_star, parse_list1_star *)

STAR == 42
Unit == <<>>

\* the loop of parse_star over one line from byte i on; star: a '*' was seen
RECURSIVE StarLoop(_, _, _)
StarLoop(x, i, star) ==
    IF i > Len(x) THEN Ok(Unit)
    ELSE IF x[i] = SP \/ x[i] = TAB THEN StarLoop(x, i + 1, star)
    ELSE IF x[i] = STAR
         THEN IF star THEN Err ELSE StarLoop(x, i + 1, TRUE)
    ELSE StarLoop(x, i + 1, star)

parse_star(s) ==
    IF Len(s) # 1 THEN Err ELSE StarLoop(s[1], 1, FALSE)

\* parse_list1_star without the test for the wildcard
parse_list1_star_NoStar(s, t) == parse_list1(s, t)

\* parse_star(s).map(|()| Vec::new()).or_else(|()| parse_list1(s))
parse_list1_star(s, t) ==
    IF parse_star(s).ok THEN Ok(<<>>) ELSE parse_list1(s, t)

----------------------------------------------------------------------------
(* serialize_value, serialize_list, serialize_list_star: the calls each    *)
(* makes on the sink iterator and on the sink, in order                    *)

\* iter.next().unwrap()
NextSink == [kind |-> "next", bytes |-> <<>>]

\* w.write_all(bytes), also as made by write! for each piece of a format
WriteAll(bytes) == [kind |-> "write", bytes |-> bytes]

\* the pieces Display::fmt hands to the formatter, one write each
Coding_fmt_writes(c) == << Coding_fmt(c) >>

Quality_fmt_writes(q) ==
    LET weight == q.weight IN
    Coding_fmt_writes(q.item) \o
        (IF weight = 0 THEN << <<SEMICOLON, SP>> \o QEQ \o <<DIGIT0>> >>
         ELSE IF weight < 1000
              THEN << <<SEMICOLON, SP>> \o QEQ \o <<DIGIT0, DOT>>,
                      trim_right_matches(Format03(weight), DIGIT0) >>
         ELSE <<>>)

EntityTag_fmt_writes(self) ==
    IF self.weak THEN << WEAK_PREFIX, self.tag, <<DQUOTE>> >>
    ELSE << <<DQUOTE>>, self.tag, <<DQUOTE>> >>

\* write!(w, "{}", v)
WriteFmt(t, v) ==
    LET pieces == IF t = "EntityTag" THEN EntityTag_fmt_writes(v)
                  ELSE Quality_fmt_writes(v)
    IN [i \in 1..Len(pieces) |-> WriteAll(pieces[i])]

serialize_value_calls(t, v) == <<NextSink>> \o WriteFmt(t, v)

\* the loop of serialize_list with the separator before every element
RECURSIVE ListLoop_SepFirst(_, _, _)
ListLoop_SepFirst(t, vals, i) ==
    IF i > Len(vals) THEN <<>>
    ELSE <<WriteAll(<<COMMA, SP>>)>> \o WriteFmt(t, vals[i])
            \o ListLoop_SepFirst(t, vals, i + 1)

\* for (i, v) in values.iter().enumerate(), i being one less than here
RECURSIVE ListLoop(_, _, _)
ListLoop(t, vals, i) ==
    IF i > Len(vals) THEN <<>>
    ELSE (IF i # 1 THEN <<WriteAll(<<COMMA, SP>>)>> ELSE <<>>)
            \o WriteFmt(t, vals[i]) \o ListLoop(t, vals, i + 1)

\* serialize_list taking the sink only when there is an element to write
serialize_list_calls_LazySink(t, vals) ==
    IF vals = <<>> THEN <<>> ELSE <<NextSink>> \o ListLoop(t, vals, 1)

serialize_list_calls(t, vals) == <<NextSink>> \o ListLoop(t, vals, 1)

\* serialize_list_star without the is_empty test
serialize_list_star_calls_NoStar(t, vals) == serialize_list_calls(t, vals)

serialize_list_star_calls(t, vals) ==
    IF vals = <<>> THEN <<NextSink, WriteAll(<<STAR>>)>>
    ELSE serialize_list_calls(t, vals)

\* the io::Error the sink returned for its n-th write
IoErr(n) == [ok |-> FALSE, err |-> n]

\* a write whose error is dropped
Try_Ignore(r, rest) == rest

\* the ? operator, and the error of a tail call: the calls after a failed
\* write are not made
Try(r, rest) == IF r.ok THEN rest ELSE <<>>

----------------------------------------------------------------------------
(* Quality<Coding>: the values formatted and the elements parsed *)

GZIP == <<103, 122, 105, 112>>
W_0_5 == <<48, 46, 53>>
W_0_25 == <<48, 46, 50, 53>>
W_0_001 == <<48, 46, 48, 48, 49>>
W_0_1234 == <<48, 46, 49, 50, 51, 52>>
W_1_1 == <<49, 46, 49>>

NoQuality == [item |-> [coding |-> "none", s |-> <<>>], weight |-> None]
NoInput == [item |-> <<>>, sep |-> <<>>, param |-> <<>>, hasq |-> FALSE]

QItems == {<<120>>, GZIP}                               \* "x", "gzip"
QSeps == {<<SEMICOLON>> \o QEQ, <<SEMICOLON, SP>> \o QEQ, <<SEMICOLON>> \o UQEQ}

FracAlphabet == {DIGIT0, DIGIT1, DIGIT9, 97}
Fracs == UNION {[1..m -> FracAlphabet] : m \in 0..MaxFrac}

\* the weights the documentation names that the alphabet does not give
NamedWeights == {W_0_5, W_0_25, W_0_001, W_0_1234, W_1_1}

WeightTexts ==
    {<<d>> : d \in {DIGIT0, DIGIT1, 50}}
        \cup {<<d, DOT>> \o f : d \in {DIGIT0, DIGIT1, 50}, f \in Fracs}
        \cup NamedWeights

\* parameters that are no q parameter: "a", "q", "a=1", "a;b"
OtherParams == {<<97>>, <<113>>, <<97, 61, 49>>, <<97, SEMICOLON, 98>>}

QInputs ==
    {[item |-> i, sep |-> <<>>, param |-> <<>>, hasq |-> FALSE] : i \in QItems}
        \cup {[item |-> i, sep |-> sp, param |-> o, hasq |-> FALSE] :
                  i \in QItems, sp \in {<<SEMICOLON>>, <<SEMICOLON, SP>>},
                  o \in OtherParams}
        \cup {[item |-> i, sep |-> sp, param |-> w, hasq |-> TRUE] :
                  i \in QItems, sp \in QSeps, w \in WeightTexts}

QSources ==
    {[item |-> Coding_from_str(i).val, weight |-> w] : i \in QItems, w \in 0..WeightMax}

QualityIdle ==
    /\ build = "release"
    /\ qin = NoInput
    /\ qsrc = NoQuality
    /\ qtext = <<>>
    /\ qres = Err
    /\ qtext2 = <<>>
    /\ qop = "init"

WeightIdle ==
    /\ wn = None
    /\ wop = "none"
    /\ wres = Err

ETagIdle ==
    /\ etags = <<>>
    /\ eop = "none"
    /\ eout = "none"
    /\ ecmp = <<>>
    /\ ein = <<>>
    /\ eres = Err
    /\ etext = <<>>

OtherIdle == WeightIdle /\ ETagIdle

\* no call has returned yet
NoResult == [ok |-> FALSE, none |-> TRUE]

SerializeIdle ==
    /\ sty = "none"
    /\ svalues = <<>>
    /\ sop = "none"
    /\ scalls = <<>>
    /\ snext = 0
    /\ scur = 0
    /\ sout = <<>>
    /\ swrites = 0
    /\ sfail = 0
    /\ sres = NoResult
    /\ slog = <<>>

CodingIdle ==
    /\ cin = <<>>
    /\ cop = "none"
    /\ cres = Err
    /\ ctext = <<>>
    /\ cres2 = Err

ParseWeightIdle ==
    /\ pwin = <<>>
    /\ pwop = "none"
    /\ pwres = Err

NewIdle == SerializeIdle /\ CodingIdle /\ ParseWeightIdle

----------------------------------------------------------------------------
(* The tokenizer as a state machine: one action per call of next() *)

Init ==
    /\ NewIdle
    /\ values \in Inputs
    /\ line = 0
    /\ column = 0
    /\ yielded = <<>>
    /\ exhausted = FALSE
    /\ extra = 0
    /\ ty = "Method"
    /\ op = "none"
    /\ res = Err
    /\ QualityIdle
    /\ OtherIdle

\* one call of next() on the iterator
IterNext ==
    LET r == IterListHeader_next(values, line, column) IN
    /\ exhausted => extra < MaxExtraCalls
    /\ line' = r.line
    /\ column' = r.column
    /\ yielded' = IF r.some THEN Append(yielded, r.item) ELSE yielded
    /\ exhausted' = (exhausted \/ ~r.some)
    /\ extra' = IF exhausted THEN extra + 1 ELSE extra
    /\ UNCHANGED <<newVars, otherVars, values, parseVars, qVars>>

Next == IterNext

Spec == Init /\ [][Next]_vars

\* the byte strings yielded so far
Elements == [i \in 1..Len(yielded) |-> Slice(values, yielded[i])]

----------------------------------------------------------------------------
(* The tokenizer's contract, written without a cursor *)

IsOWS(b) == b = SP \/ b = TAB

RECURSIVE TrimLeft(_)
TrimLeft(s) == IF s # <<>> /\ IsOWS(Head(s)) THEN TrimLeft(Tail(s)) ELSE s

RECURSIVE TrimRight(_)
TrimRight(s) ==
    IF s # <<>> /\ IsOWS(s[Len(s)]) THEN TrimRight(SubSeq(s, 1, Len(s) - 1)) ELSE s

Trim(s) == TrimRight(TrimLeft(s))

\* the pieces of s between its commas
RECURSIVE SplitComma(_, _)
SplitComma(s, piece) ==
    IF s = <<>> THEN <<piece>>
    ELSE IF Head(s) = COMMA THEN <<piece>> \o SplitComma(Tail(s), <<>>)
    ELSE SplitComma(Tail(s), Append(piece, Head(s)))

NonEmpty(s) == s # <<>>

LineElements(ln) ==
    LET pieces == SplitComma(ln, <<>>) IN
    SelectSeq([i \in 1..Len(pieces) |-> Trim(pieces[i])], NonEmpty)

RECURSIVE ListElements(_)
ListElements(vals) ==
    IF vals = <<>> THEN <<>>
    ELSE LineElements(Head(vals)) \o ListElements(Tail(vals))

IsPrefix(s, t) == Len(s) <= Len(t) /\ s = SubSeq(t, 1, Len(s))

\* C1: the elements yielded are, in order, the non-empty trimmed pieces
\* between the commas of each line: what has been yielded so far is a
\* prefix of that sequence and, once next() has returned None, all of it.
C1_TokenizerYieldsTrimmedPieces ==
    /\ IsPrefix(Elements, ListElements(values))
    /\ exhausted => Elements = ListElements(values)

\* ["a, b ,c"] has been tokenized to a, b, c; ["a,", "b"] to a, b; and
\* [" , , "] to nothing
C1_Witness ==
    /\ exhausted
    /\ \/ values = Ex_abc /\ Elements = << <<97>>, <<98>>, <<99>> >>
       \/ values = Ex_a_b /\ Elements = << <<97>>, <<98>> >>
       \/ values = Ex_blank /\ Elements = <<>>

Before(a, b) == a.line < b.line \/ (a.line = b.line /\ a.end <= b.start)

Covered(ln, col) ==
    \E i \in 1..Len(yielded) :
        yielded[i].line = ln /\ yielded[i].start <= col /\ col < yielded[i].end

\* C2: every element yielded is a non-empty slice of one input line, holds
\* no comma, starts and ends with a byte other than space and tab; the
\* elements come in increasing (line, column) order and do not overlap; and
\* no byte is filtered out: once the iterator is exhausted every input byte
\* other than space, tab and comma, valid UTF-8 or not, lies in an element.
C2_ElementsWellFormed ==
    /\ \A i \in 1..Len(yielded) :
          LET it == yielded[i] IN
          /\ it.line >= 0 /\ it.line < Len(values)
          /\ 0 <= it.start /\ it.start < it.end /\ it.end <= Len(values[it.line + 1])
          /\ \A c \in it.start .. it.end - 1 : values[it.line + 1][c + 1] # COMMA
          /\ ~IsOWS(values[it.line + 1][it.start + 1])
          /\ ~IsOWS(values[it.line + 1][it.end])
    /\ \A i, j \in 1..Len(yielded) : i < j => Before(yielded[i], yielded[j])
    /\ exhausted =>
          \A l \in 1..Len(values) : \A c \in 1..Len(values[l]) :
              (~IsOWS(values[l][c]) /\ values[l][c] # COMMA) => Covered(l - 1, c - 1)

\* two elements have been yielded from one line, one of them holding a byte
\* that can never occur in UTF-8
C2_Witness ==
    /\ Len(yielded) >= 2
    /\ yielded[1].line = yielded[2].line
    /\ \E i \in 1..Len(yielded) : \E c \in 1..Len(Elements[i]) : Elements[i][c] = 255

----------------------------------------------------------------------------
(* The parse helpers: each action is one call on the lines `values` *)

InitParse ==
    /\ NewIdle
    /\ values \in Inputs
    /\ ty \in Types
    /\ op = "none"
    /\ res = Err
    /\ line = 0
    /\ column = 0
    /\ yielded = <<>>
    /\ exhausted = FALSE
    /\ extra = 0
    /\ QualityIdle
    /\ OtherIdle

CallParseValue ==
    /\ op' = "parse_value"
    /\ res' = parse_value(values, ty)
    /\ UNCHANGED <<newVars, otherVars, values, ty, iterVars, qVars>>

CallParseList0 ==
    /\ op' = "parse_list0"
    /\ res' = parse_list0(values, ty)
    /\ UNCHANGED <<newVars, otherVars, values, ty, iterVars, qVars>>

CallParseList1 ==
    /\ op' = "parse_list1"
    /\ res' = parse_list1(values, ty)
    /\ UNCHANGED <<newVars, otherVars, values, ty, iterVars, qVars>>

NextParse == CallParseValue \/ CallParseList0 \/ CallParseList1

SpecParse == InitParse /\ [][NextParse]_vars

\* l1 "," l2 "," ... "," ln
RECURSIVE JoinComma(_)
JoinComma(vals) ==
    IF vals = <<>> THEN <<>>
    ELSE IF Len(vals) = 1 THEN vals[1]
    ELSE vals[1] \o <<COMMA>> \o JoinComma(Tail(vals))

\* C3: the lines give the same elements as the one line made of them
\* joined with commas, and so parse_list0 and parse_list1 return for the
\* lines what they return for the joined line.
C3_LinesEquivalentToCommaJoin ==
    LET joined == <<JoinComma(values)>> IN
    /\ Tokens(values) = Tokens(joined)
    /\ op = "parse_list0" => res = parse_list0(joined, ty)
    /\ op = "parse_list1" => res = parse_list1(joined, ty)

\* a list helper has returned a list of two items for two lines that hold
\* one element each
C3_Witness ==
    /\ op \in {"parse_list0", "parse_list1"}
    /\ Len(values) = 2
    /\ Len(Tokens(<<values[1]>>)) = 1
    /\ Len(Tokens(<<values[2]>>)) = 1
    /\ res.ok
    /\ Len(res.val) = 2

\* C4: parse_value returns an error when the number of lines is not one.
C4_ParseValueNeedsOneLine ==
    (op = "parse_value" /\ Len(values) # 1) => ~res.ok

\* parse_value was called on two identical lines, each of which it accepts
\* when it is the only line
C4_Witness ==
    /\ op = "parse_value"
    /\ Len(values) = 2
    /\ values[1] = values[2]
    /\ parse_value(<<values[1]>>, ty).ok
    /\ ~res.ok

\* C5 (as claimed): on a single line parse_value returns what it returns
\* for that line with the surrounding space and tab bytes removed.
C5_ParseValueTrims ==
    (op = "parse_value" /\ Len(values) = 1) =>
        res = parse_value(<<Trim(values[1])>>, ty)

C7_ParseList1NonEmpty ==
    op = "parse_list1" =>
        LET r0 == parse_list0(values, ty) IN
        /\ ~res.ok <=> (~r0.ok \/ r0.val = <<>>)
        /\ res.ok => /\ res = r0
                     /\ Len(res.val) = Len(ListElements(values))
                     /\ Len(res.val) >= 1

\* parse_list1 failed on lines that hold no element although parse_list0
\* accepts them
C7_Witness ==
    /\ op = "parse_list1"
    /\ ~res.ok
    /\ Len(values) >= 1
    /\ parse_list0(values, ty) = Ok(<<>>)

----------------------------------------------------------------------------
(* Quality<Coding>: from_str on an element, and fmt / from_str / fmt on a  *)
(* value                                                                   *)

InitQuality ==
    /\ NewIdle
    /\ values = <<>>
    /\ line = 0
    /\ column = 0
    /\ yielded = <<>>
    /\ exhausted = FALSE
    /\ extra = 0
    /\ ty = "Coding"
    /\ op = "none"
    /\ res = Err
    /\ build \in {"debug", "release"}
    /\ \/ /\ qin \in QInputs
          /\ qsrc = NoQuality
          /\ qtext = qin.item \o qin.sep \o qin.param
       \/ /\ qin = NoInput
          /\ qsrc \in QSources
          /\ qtext = <<>>
    /\ qres = Err
    /\ qtext2 = <<>>
    /\ qop = "init"
    /\ OtherIdle

\* Display::fmt of the value qsrc
CallFmt ==
    /\ qop = "init"
    /\ qsrc # NoQuality
    /\ qtext' = Quality_fmt(qsrc)
    /\ qop' = "formatted"
    /\ UNCHANGED <<newVars, otherVars, values, iterVars, parseVars, build, qin, qsrc, qres, qtext2>>

\* qtext.parse::<Quality<Coding>>()
CallFromStr ==
    /\ \/ qop = "init" /\ qsrc = NoQuality
       \/ qop = "formatted"
    /\ qres' = Quality_from_str(qtext, build)
    /\ qop' = "parsed"
    /\ UNCHANGED <<newVars, otherVars, values, iterVars, parseVars, build, qin, qsrc, qtext, qtext2>>

\* Display::fmt of the value parsed
CallFmtParsed ==
    /\ qop = "parsed"
    /\ qres.ok
    /\ qtext2' = Quality_fmt(qres.val)
    /\ qop' = "reformatted"
    /\ UNCHANGED <<newVars, otherVars, values, iterVars, parseVars, build, qin, qsrc, qtext, qres>>

NextQuality == CallFmt \/ CallFromStr \/ CallFmtParsed

SpecQuality == InitQuality /\ [][NextQuality]_vars

IsDigit(c) == c >= DIGIT0 /\ c <= DIGIT9

\* the digit at position i of the fraction of w, 0 past its end
FracDigit(w, i) == IF Len(w) >= 2 + i THEN w[2 + i] - DIGIT0 ELSE 0

\* "0" or "0." followed by one to three digits
IsZeroWeight(w) ==
    /\ Len(w) >= 1 /\ w[1] = DIGIT0
    /\ \/ Len(w) = 1
       \/ /\ Len(w) >= 3 /\ Len(w) <= 5
          /\ w[2] = DOT
          /\ \A i \in 3..Len(w) : IsDigit(w[i])

\* "1", "1.0", "1.00", "1.000"
IsOneWeight(w) ==
    /\ Len(w) >= 1 /\ w[1] = DIGIT1
    /\ \/ Len(w) = 1
       \/ /\ Len(w) >= 3 /\ Len(w) <= 5
          /\ w[2] = DOT
          /\ \A i \in 3..Len(w) : w[i] = DIGIT0

PaddedWeight(w) ==
    IF IsOneWeight(w) THEN WeightMax
    ELSE FracDigit(w, 1) * 100 + FracDigit(w, 2) * 10 + FracDigit(w, 3)

\* C8 (as claimed): an element whose q parameter is 0 or 0.d, 0.dd, 0.ddd
\* parses to the item with the digits right-padded to three as the weight,
\* and one whose q parameter is 1, 1.0, 1.00 or 1.000 to weight 1000.
C8_QValueParsed ==
    (qop = "parsed" /\ qin.hasq /\ (IsZeroWeight(qin.param) \/ IsOneWeight(qin.param))) =>
        qres = Ok([item |-> Coding_from_str(qin.item).val,
                   weight |-> PaddedWeight(qin.param)])

\* the q parameters the claim rejects
IsBadWeight(w) ==
    \/ Len(w) >= 1 /\ w[1] # DIGIT0 /\ w[1] # DIGIT1
    \/ Len(w) >= 3 /\ w[1] = DIGIT1 /\ w[2] = DOT
          /\ \E i \in 3..Len(w) : IsDigit(w[i]) /\ w[i] # DIGIT0
    \/ Len(w) >= 6 /\ w[2] = DOT
    \/ \E i \in 3..Len(w) : ~IsDigit(w[i])

\* C9 (as claimed): an element whose q parameter has a leading digit other
\* than 0 and 1, a non-zero digit after "1.", more than three fractional
\* digits or a character that is no digit fails to parse.
C9_BadQValueRejected ==
    (qop = "parsed" /\ qin.hasq /\ IsBadWeight(qin.param)) => ~qres.ok

\* C10 (as claimed): the text written for a weight in 0..=1000 parses, and
\* the value parsed is written as the same text; an element without q
\* parameter parses to weight 1000.
C10_WeightRoundTrip ==
    /\ (qsrc # NoQuality /\ qop = "parsed") => qres.ok
    /\ (qsrc # NoQuality /\ qop = "reformatted") => qtext2 = qtext
    /\ (qsrc = NoQuality /\ ~qin.hasq /\ qop = "parsed") =>
           qres.ok /\ qres.val.weight = WeightMax

\* the digits of a weight in 1..999 as three decimals, the zeros at the end
\* removed
WeightDecimals(w) ==
    LET d1 == w \div 100
        d2 == (w \div 10) % 10
        d3 == w % 10
    IN IF d3 # 0 THEN <<DIGIT0 + d1, DIGIT0 + d2, DIGIT0 + d3>>
       ELSE IF d2 # 0 THEN <<DIGIT0 + d1, DIGIT0 + d2>>
       ELSE <<DIGIT0 + d1>>

\* "; q=0"
SuffixZero == <<SEMICOLON, SP, 113, 61, DIGIT0>>

WeightSuffix(w) ==
    IF w = WeightMax THEN <<>>
    ELSE IF w = 0 THEN SuffixZero
    ELSE SuffixZero \o <<DOT>> \o WeightDecimals(w)

\* C11: fmt writes the item and then nothing for weight 1000, "; q=0" for
\* weight 0, and otherwise "; q=0." with the weight as three zero-padded
\* digits less their trailing zeros: 500 gives "; q=0.5", 250 "; q=0.25",
\* 5 "; q=0.005".
C11_FmtWritesWeight ==
    /\ qop = "formatted" =>
           qtext = Coding_fmt(qsrc.item) \o WeightSuffix(qsrc.weight)
    /\ WeightSuffix(500) = SuffixZero \o <<DOT, 53>>
    /\ WeightSuffix(250) = SuffixZero \o <<DOT, 50, 53>>
    /\ WeightSuffix(5) = SuffixZero \o <<DOT, DIGIT0, DIGIT0, 53>>

C11_Witness ==
    /\ qop = "formatted"
    /\ qsrc.weight = 5
    /\ qtext = Coding_fmt(qsrc.item) \o <<SEMICOLON, SP, 113, 61, DIGIT0, DOT, DIGIT0, DIGIT0, 53>>

\* C12 (as claimed): an element whose text after the last ';' does not
\* begin with "q=" or "Q=" is parsed whole, its ';' included, as the item,
\* with weight 1000; so is an element without ';'.
C12_NoQParsedWhole ==
    (qop = "parsed" /\ qsrc = NoQuality /\ ~qin.hasq) =>
        qres = Ok([item |-> Coding_from_str(qtext).val, weight |-> WeightMax])

----------------------------------------------------------------------------
(* Weight and Quality<Coding>: every way of making one *)

\* the u16 arguments: all of 0..=1000, the first ones above, and u16::MAX
WeightArgs == 0..(WeightMax + MaxOver) \cup {U16 - 1}

QCodings == {Coding_from_str(i).val : i \in QItems}

InitWeight ==
    /\ NewIdle
    /\ values = <<>>
    /\ line = 0
    /\ column = 0
    /\ yielded = <<>>
    /\ exhausted = FALSE
    /\ extra = 0
    /\ ty = "Coding"
    /\ op = "none"
    /\ res = Err
    /\ build \in {"debug", "release"}
    /\ qsrc = NoQuality
    /\ \/ /\ qin \in QInputs
          /\ qtext = qin.item \o qin.sep \o qin.param
          /\ wn = None
       \/ /\ qin = NoInput
          /\ qtext = <<>>
          /\ wn \in WeightArgs
    /\ qres = Err
    /\ qtext2 = <<>>
    /\ qop = "init"
    /\ wop = "none"
    /\ wres = Err
    /\ ETagIdle

\* Weight::new(wn)
CallWeightNew ==
    /\ wop = "none" /\ wn # None
    /\ wres' = Weight_new(wn)
    /\ wop' = "Weight::new"
    /\ UNCHANGED <<newVars, values, iterVars, parseVars, qVars, wn, eVars>>

\* Weight::from(wn)
CallWeightFrom ==
    /\ wop = "none" /\ wn # None
    /\ wres' = Weight_from(wn)
    /\ wop' = "Weight::from"
    /\ UNCHANGED <<newVars, values, iterVars, parseVars, qVars, wn, eVars>>

\* Quality::new(item, wn)
CallQualityNew ==
    /\ wop = "none" /\ wn # None
    /\ \E item \in QCodings : wres' = Quality_new(item, wn)
    /\ wop' = "Quality::new"
    /\ UNCHANGED <<newVars, values, iterVars, parseVars, qVars, wn, eVars>>

\* Quality::new(item, w) with the Weight w that a constructor returned
CallQualityNewWeight ==
    /\ wop \in {"Weight::new", "Weight::from"} /\ wres.ok
    /\ \E item \in QCodings : wres' = Quality_new_weight(item, wres.val)
    /\ wop' = "Quality::new(Weight)"
    /\ UNCHANGED <<newVars, values, iterVars, parseVars, qVars, wn, eVars>>

\* Quality::from(item)
CallQualityFrom ==
    /\ wop = "none" /\ wn # None
    /\ \E item \in QCodings : wres' = Quality_from(item)
    /\ wop' = "Quality::from"
    /\ UNCHANGED <<newVars, values, iterVars, parseVars, qVars, wn, eVars>>

\* qtext.parse::<Quality<Coding>>()
CallWeightParse ==
    /\ wn = None
    /\ CallFromStr

NextWeight ==
    \/ CallWeightNew
    \/ CallWeightFrom
    \/ CallQualityNew
    \/ CallQualityNewWeight
    \/ CallQualityFrom
    \/ CallWeightParse

SpecWeight == InitWeight /\ [][NextWeight]_vars

\* C14: every Weight holds a value in 0..=1000: Weight::new and From<u16>
\* panic for an argument above 1000, and Quality::new, Quality::from (which
\* gives 1000) and parsing only make weights that passed that check.
C14_WeightInRange ==
    /\ wop \in {"Weight::new", "Weight::from"} =>
           IF wn > WeightMax THEN wres = Panic ELSE wres = Ok(wn)
    /\ wop = "Quality::new" =>
           IF wn > WeightMax THEN wres = Panic
           ELSE wres.ok /\ wres.val.weight = wn
    /\ wop = "Quality::new(Weight)" =>
           wres.ok /\ wres.val.weight \in 0..WeightMax
    /\ wop = "Quality::from" => wres.ok /\ wres.val.weight = WeightMax
    /\ (qop = "parsed" /\ qres.ok) => qres.val.weight \in 0..WeightMax

C14_Witness ==
    /\ wop = "Weight::from"
    /\ wn = WeightMax + 1
    /\ wres = Panic

----------------------------------------------------------------------------
(* EntityTag::from_str on a text, and fmt on the tag parsed *)

\* '"', 'W', '/', '1', ' ', DEL
ETagAlphabet == {DQUOTE, 87, 47, 49, SP, 127}

ETagStrings == UNION {[1..m -> ETagAlphabet] : m \in 0..MaxETagLen}

\* "!", "#", "~", a control character, "\u{e9}" (two bytes), w/"1", W/"1""
Ex_etags == {
    <<DQUOTE, 33, DQUOTE>>, <<DQUOTE, 35, DQUOTE>>, <<DQUOTE, 126, DQUOTE>>,
    <<DQUOTE, 31, DQUOTE>>, <<DQUOTE, TAB, DQUOTE>>,
    <<DQUOTE, 195, 169, DQUOTE>>, <<87, 47, DQUOTE, 195, 169, DQUOTE>>,
    <<119, 47, DQUOTE, 49, DQUOTE>>, <<87, 47, DQUOTE, 49, DQUOTE, DQUOTE>>,
    <<87, 47, DQUOTE, 49, 127, 49, DQUOTE>> }

ETagTexts == ETagStrings \cup Ex_etags

\* the tags new, weak and strong return for the texts of up to MaxBuiltLen
\* bytes and for a two-byte character
BuiltTags ==
    LET args == UNION {[1..m -> ETagAlphabet] : m \in 0..MaxBuiltLen} \cup {<<195, 169>>}
        made == {EntityTag_weak(tag) : tag \in args}
                    \cup {EntityTag_strong(tag) : tag \in args}
                    \cup {EntityTag_new(w, tag) : w \in BOOLEAN, tag \in args}
    IN {r.val : r \in {m \in made : m.ok}}

InitETagParse ==
    /\ NewIdle
    /\ values = <<>>
    /\ line = 0
    /\ column = 0
    /\ yielded = <<>>
    /\ exhausted = FALSE
    /\ extra = 0
    /\ ty = "EntityTag"
    /\ op = "none"
    /\ res = Err
    /\ QualityIdle
    /\ WeightIdle
    /\ \/ /\ etags = <<>>
          /\ ein \in ETagTexts
       \/ /\ etags \in {<<t>> : t \in BuiltTags}
          /\ ein = <<>>
    /\ eop = "none"
    /\ eout = "none"
    /\ ecmp = <<>>
    /\ eres = Err
    /\ etext = <<>>

\* ein.parse::<EntityTag>()
CallETagFromStr ==
    /\ eop = "none"
    /\ etags = <<>>
    /\ eres' = EntityTag_from_str(ein)
    /\ eop' = "parsed"
    /\ eout' = IF eres'.ok THEN "ok" ELSE IF eres' = Panic THEN "panic" ELSE "err"
    /\ UNCHANGED <<newVars, values, iterVars, parseVars, qVars, wVars, etags, ecmp, ein, etext>>

\* Display::fmt of the tag parsed
CallETagFmt ==
    /\ eop = "parsed"
    /\ eres.ok
    /\ etext' = EntityTag_fmt(eres.val)
    /\ eop' = "formatted"
    /\ UNCHANGED <<newVars, values, iterVars, parseVars, qVars, wVars, etags, eout, ecmp, ein, eres>>

\* Display::fmt of the tag built
CallETagFmtBuilt ==
    /\ eop = "none"
    /\ etags # <<>>
    /\ etext' = EntityTag_fmt(etags[1])
    /\ eop' = "built_formatted"
    /\ UNCHANGED <<newVars, values, iterVars, parseVars, qVars, wVars, etags, eout, ecmp, ein, eres>>

\* etext.parse::<EntityTag>(), the tag that was formatted being kept
CallETagReparse ==
    /\ eop \in {"formatted", "built_formatted"}
    /\ etags' = IF eop = "formatted" THEN <<eres.val>> ELSE etags
    /\ eres' = EntityTag_from_str(etext)
    /\ eop' = "reparsed"
    /\ eout' = IF eres'.ok THEN "ok" ELSE IF eres' = Panic THEN "panic" ELSE "err"
    /\ UNCHANGED <<newVars, values, iterVars, parseVars, qVars, wVars, ecmp, ein, etext>>

NextETagParse ==
    \/ CallETagFromStr
    \/ CallETagFmt
    \/ CallETagFmtBuilt
    \/ CallETagReparse

SpecETagParse == InitETagParse /\ [][NextETagParse]_vars

\* etagc = %x21 / %x23-7E / obs-text
IsEtagc(c) == c = 33 \/ c \in 35..126 \/ c \in 128..255

\* what etagc leaves out below %x80: DQUOTE, space, the controls and DEL
IsNotEtagc(c) == c = DQUOTE \/ c = SP \/ c \in 0..31 \/ c = 127

\* the prefixes an entity-tag may have before its opening DQUOTE
ETagPrefixes == {<<>>, <<87, 47>>}

\* s = prefix DQUOTE x DQUOTE
IsQuoted(s, prefix, x) == s = prefix \o <<DQUOTE>> \o x \o <<DQUOTE>>

\* what lies between the opening DQUOTE after the prefix and the last byte
Interior(s, prefix) == SubSeq(s, Len(prefix) + 2, Len(s) - 1)

\* entity-tag = [ "W/" ] DQUOTE *etagc DQUOTE
InGrammar(s) ==
    \E prefix \in ETagPrefixes :
        /\ Len(s) >= Len(prefix) + 2
        /\ IsQuoted(s, prefix, Interior(s, prefix))
        /\ \A i \in 1..Len(Interior(s, prefix)) : IsEtagc(Interior(s, prefix)[i])

HasBadInterior(s) ==
    \E prefix \in ETagPrefixes :
        /\ Len(s) >= Len(prefix) + 2
        /\ IsQuoted(s, prefix, Interior(s, prefix))
        /\ \E i \in 1..Len(Interior(s, prefix)) : IsNotEtagc(Interior(s, prefix)[i])

\* the text before the first DQUOTE of s is neither empty nor "W/"
HasBadPrefix(s) ==
    \E k \in 1..Len(s) :
        /\ s[k] = DQUOTE
        /\ \A j \in 1..(k - 1) : s[j] # DQUOTE
        /\ SubSeq(s, 1, k - 1) \notin ETagPrefixes

\* C15: from_str accepts exactly [ "W/" ] DQUOTE *etagc DQUOTE and gives the
\* strong or weak tag between the quotes; it returns an error for a text that
\* does not end in DQUOTE, that has a DQUOTE, space, control or DEL between
\* the quotes, or whose prefix before the opening quote is neither empty nor
\* the case-sensitive "W/".
C15_FromStrGrammar ==
    eop = "parsed" =>
        /\ eres.ok <=> InGrammar(ein)
        /\ \A prefix \in ETagPrefixes :
               (InGrammar(ein) /\ IsQuoted(ein, prefix, Interior(ein, prefix))) =>
                   eres = Ok([weak |-> prefix # <<>>, tag |-> Interior(ein, prefix)])
        /\ (ein = <<>> \/ ein[Len(ein)] # DQUOTE) => eres = Err
        /\ HasBadInterior(ein) => eres = Err
        /\ HasBadPrefix(ein) => eres = Err

C15_Witness ==
    /\ eop = "parsed"
    /\ ein = <<87, 47, DQUOTE, 49, DQUOTE>>
    /\ eres = Ok([weak |-> TRUE, tag |-> <<49>>])

----------------------------------------------------------------------------
(* EntityTag values: made, changed and compared *)

\* '1', '2', '"'
TagBytes == {49, 50, DQUOTE}

\* the tags handed to new / weak / strong / set_tag; DEL, space and a
\* two-byte character besides
TagArgs ==
    UNION {[1..m -> TagBytes] : m \in 0..MaxTagLen}
        \cup {<<127>>, <<SP>>, <<195, 169>>}

\* "1", W/"2", ", """, 1
ETagParseTexts == {
    <<DQUOTE, 49, DQUOTE>>, <<87, 47, DQUOTE, 50, DQUOTE>>,
    <<DQUOTE>>, <<DQUOTE, DQUOTE, DQUOTE>>, <<49>> }

InitETag ==
    /\ NewIdle
    /\ values = <<>>
    /\ line = 0
    /\ column = 0
    /\ yielded = <<>>
    /\ exhausted = FALSE
    /\ extra = 0
    /\ ty = "EntityTag"
    /\ op = "none"
    /\ res = Err
    /\ QualityIdle
    /\ WeightIdle
    /\ ETagIdle

Outcome(r) == IF r.ok THEN "ok" ELSE IF r = Panic THEN "panic" ELSE "err"

\* a constructor or a parse returned r: the value exists when r is Ok
Made(r, name, arg) ==
    /\ etags' = IF r.ok THEN Append(etags, r.val) ELSE etags
    /\ eop' = name
    /\ eout' = Outcome(r)
    /\ ein' = arg
    /\ ecmp' = <<>>
    /\ UNCHANGED <<newVars, values, iterVars, parseVars, qVars, wVars, eres, etext>>

CallNew ==
    /\ Len(etags) < MaxTags
    /\ \E weak \in BOOLEAN, tag \in TagArgs : Made(EntityTag_new(weak, tag), "new", tag)

CallWeak ==
    /\ Len(etags) < MaxTags
    /\ \E tag \in TagArgs : Made(EntityTag_weak(tag), "weak", tag)

CallStrong ==
    /\ Len(etags) < MaxTags
    /\ \E tag \in TagArgs : Made(EntityTag_strong(tag), "strong", tag)

\* text.parse::<EntityTag>()
CallParse ==
    /\ Len(etags) < MaxTags
    /\ \E text \in ETagParseTexts : Made(EntityTag_from_str(text), "parse", text)

\* etags[i].set_tag(tag)
CallSetTag ==
    \E i \in 1..Len(etags), tag \in TagArgs :
        LET r == set_tag(etags[i], tag) IN
        /\ etags' = [etags EXCEPT ![i] = r.self]
        /\ eop' = "set_tag"
        /\ eout' = IF r.panic THEN "panic" ELSE "ok"
        /\ ein' = tag
        /\ ecmp' = <<>>
        /\ UNCHANGED <<newVars, values, iterVars, parseVars, qVars, wVars, eres, etext>>

\* etags[i].weak = b
AssignWeak ==
    \E i \in 1..Len(etags), b \in BOOLEAN :
        /\ etags' = [etags EXCEPT ![i].weak = b]
        /\ eop' = "weak="
        /\ eout' = "ok"
        /\ ein' = <<>>
        /\ ecmp' = <<>>
        /\ UNCHANGED <<newVars, values, iterVars, parseVars, qVars, wVars, eres, etext>>

\* strong_eq, weak_eq, their negations and == on every pair of tags
CompareAll ==
    /\ etags # <<>>
    /\ eop # "compared"
    /\ ecmp' = [i \in 1..Len(etags) |-> [j \in 1..Len(etags) |->
                   [strong_eq |-> strong_eq(etags[i], etags[j]),
                    weak_eq |-> weak_eq(etags[i], etags[j]),
                    strong_ne |-> strong_ne(etags[i], etags[j]),
                    weak_ne |-> weak_ne(etags[i], etags[j]),
                    eq |-> EntityTag_eq(etags[i], etags[j])]]]
    /\ eop' = "compared"
    /\ eout' = "ok"
    /\ ein' = <<>>
    /\ UNCHANGED <<newVars, values, iterVars, parseVars, qVars, wVars, etags, eres, etext>>

NextETag ==
    \/ CallNew
    \/ CallWeak
    \/ CallStrong
    \/ CallParse
    \/ CallSetTag
    \/ AssignWeak
    \/ CompareAll

SpecETag == InitETag /\ [][NextETag]_vars

TagIndices == 1..Len(etags)

\* the same bytes at the same places
ByteIdentical(a, b) == Len(a) = Len(b) /\ \A k \in 1..Len(a) : a[k] = b[k]

Weak1 == [weak |-> TRUE, tag |-> <<49>>]
Weak2 == [weak |-> TRUE, tag |-> <<50>>]
Strong1 == [weak |-> FALSE, tag |-> <<49>>]

\* C16: strong_eq(a, b) is true exactly when neither tag is weak and the
\* tags are byte-identical, weak_eq(a, b) exactly when the tags are
\* byte-identical; W/"1" vs W/"1" and W/"1" vs "1" are weak-equal and not
\* strong-equal, W/"1" vs W/"2" match neither way, "1" vs "1" both ways.
C16_Comparisons ==
    eop = "compared" =>
        \A i \in TagIndices, j \in TagIndices :
            LET a == etags[i]
                b == etags[j]
                c == ecmp[i][j]
            IN /\ c.strong_eq <=> (~a.weak /\ ~b.weak /\ ByteIdentical(a.tag, b.tag))
               /\ c.weak_eq <=> ByteIdentical(a.tag, b.tag)
               /\ (a = Weak1 /\ b = Weak1) => (c.weak_eq /\ ~c.strong_eq)
               /\ (a = Weak1 /\ b = Strong1) => (c.weak_eq /\ ~c.strong_eq)
               /\ (a = Weak1 /\ b = Weak2) => (~c.weak_eq /\ ~c.strong_eq)
               /\ (a = Strong1 /\ b = Strong1) => (c.weak_eq /\ c.strong_eq)

C16_Witness ==
    /\ eop = "compared"
    /\ etags = <<Weak1, Strong1, Weak2>>
    /\ ecmp[1][2].weak_eq /\ ~ecmp[1][2].strong_eq
    /\ ~ecmp[1][3].weak_eq
    /\ ecmp[2][2].strong_eq

\* rel is reflexive, symmetric and transitive on the existing tags
IsEquivalence(rel(_, _)) ==
    /\ \A i \in TagIndices : rel(i, i)
    /\ \A i \in TagIndices, j \in TagIndices : rel(i, j) => rel(j, i)
    /\ \A i \in TagIndices, j \in TagIndices, k \in TagIndices :
           (rel(i, j) /\ rel(j, k)) => rel(i, k)

StrongRel(i, j) == ecmp[i][j].strong_eq
WeakRel(i, j) == ecmp[i][j].weak_eq
EqRel(i, j) == ecmp[i][j].eq

\* C17 (as claimed): strong_eq and weak_eq are each reflexive, symmetric and
\* transitive on all entity tags, weak or strong.
C17_BothEquivalences ==
    eop = "compared" => (IsEquivalence(StrongRel) /\ IsEquivalence(WeakRel))

\* C17 (amended): weak_eq is an equivalence relation on all entity tags;
\* strong_eq is symmetric and transitive on all of them and relates a tag to
\* itself exactly when the tag is not weak, so it is an equivalence relation
\* on the strong tags only; strong_eq implies ==, and == implies weak_eq.
C17_EquivalenceOnStrongTags ==
    eop = "compared" =>
        /\ IsEquivalence(WeakRel)
        /\ \A i \in TagIndices : StrongRel(i, i) <=> ~etags[i].weak
        /\ \A i \in TagIndices, j \in TagIndices : StrongRel(i, j) => StrongRel(j, i)
        /\ \A i \in TagIndices, j \in TagIndices, k \in TagIndices :
               (StrongRel(i, j) /\ StrongRel(j, k)) => StrongRel(i, k)
        /\ \A i \in TagIndices, j \in TagIndices :
               (StrongRel(i, j) => EqRel(i, j)) /\ (EqRel(i, j) => WeakRel(i, j))

\* three tags on which the three relations differ: W/"1" == itself without
\* being strong-equal to it, and is weak-equal to "1" without being == to it
C17_Witness ==
    /\ eop = "compared"
    /\ etags = <<Strong1, Weak1, Strong1>>
    /\ StrongRel(1, 3) /\ StrongRel(3, 1) /\ StrongRel(1, 1)
    /\ EqRel(2, 2) /\ ~StrongRel(2, 2)
    /\ WeakRel(1, 2) /\ ~EqRel(1, 2)

AllTagsValid ==
    \A i \in TagIndices : \A k \in 1..Len(etags[i].tag) : IsEtagc(etags[i].tag[k])

\* C18: after any sequence of new / weak / strong, set_tag, assignments to
\* weak and successful parses, every existing tag has only the bytes 0x21,
\* 0x23-0x7E and >= 0x80; new, weak, strong and set_tag panic on a tag with
\* another byte; and a set_tag that panics leaves the tag it was called on
\* as it was.
C18_TagsStayValid ==
    /\ [](AllTagsValid)
    /\ [](eop \in {"new", "weak", "strong", "set_tag"} =>
              (eout = "panic" <=> \E k \in 1..Len(ein) : ~IsEtagc(ein[k])))
    /\ [][(eop' = "set_tag" /\ eout' = "panic") => etags' = etags]_vars

C18_Witness ==
    /\ eop = "set_tag"
    /\ eout = "panic"
    /\ ein = <<DQUOTE>>
    /\ etags = <<Strong1, Weak2>>

----------------------------------------------------------------------------
(* The list helpers on the values of If-Match / If-None-Match (EntityTag)  *)
(* and of Accept-Encoding (Quality<Coding>)                                *)

ETAG_1 == <<DQUOTE, 49, DQUOTE>>                        \* "1"
ETAG_2 == <<DQUOTE, 50, DQUOTE>>                        \* "2"
Q_A_01 == <<97, SEMICOLON, 113, 61, 48, 46, 49>>        \* a;q=0.1
Q_B_09 == <<98, SEMICOLON, 113, 61, 48, 46, 57>>        \* b;q=0.9

\* what the lines are put together from, for each element type
Pieces(t) ==
    IF t = "EntityTag" THEN {<<STAR>>, <<COMMA>>, <<SP>>, ETAG_1, ETAG_2}
    ELSE {<<STAR>>, <<COMMA>>, <<SP>>, Q_A_01, Q_B_09}

RECURSIVE Flatten(_)
Flatten(ps) == IF ps = <<>> THEN <<>> ELSE Head(ps) \o Flatten(Tail(ps))

PieceSeqs(t) == UNION {[1..m -> Pieces(t)] : m \in 0..MaxPieces}

PieceCuts == UNION {[1..k -> 0..MaxPieces] : k \in 0..MaxLines}

PieceInputs(t) ==
    {[i \in 1..Len(c[2]) |-> Flatten(Cut(c[1], c[2])[i])] :
        c \in {d \in PieceSeqs(t) \X PieceCuts : SumLens(d[2], Len(d[2])) = Len(d[1])}}

Ex_star_ows == << <<TAB, STAR, SP, SP>> >>               \* ["\t*  "]
Ex_weak == << <<87, 47, DQUOTE, 49, DQUOTE, COMMA, TAB, 87, 47, DQUOTE, 50, DQUOTE>> >>
Ex_star_tag == << <<STAR, COMMA, SP, DQUOTE, 49, DQUOTE>> >>  \* ["*, \"1\""]
Ex_x == << <<120, COMMA, 103, 122, 105, 112>> >>        \* ["x,gzip"]
Ex_tags_1_2 == << ETAG_1 \o <<COMMA, SP>> \o ETAG_2 >>   \* ["\"1\", \"2\""]
Ex_q_a_b == << Q_A_01 \o <<COMMA, SP>> \o Q_B_09 >>      \* ["a;q=0.1, b;q=0.9"]

HeaderInputs(t) ==
    PieceInputs(t) \cup
        (IF t = "EntityTag" THEN {Ex_star_ows, Ex_weak, Ex_star_tag, Ex_tags_1_2}
         ELSE {Ex_star_ows, Ex_x, Ex_q_a_b})

HeaderTypes == {"EntityTag", "Quality"}

InitHeaders ==
    /\ NewIdle
    /\ ty \in HeaderTypes
    /\ values \in HeaderInputs(ty)
    /\ op = "none"
    /\ res = Err
    /\ line = 0
    /\ column = 0
    /\ yielded = <<>>
    /\ exhausted = FALSE
    /\ extra = 0
    /\ build \in {"debug", "release"}
    /\ qin = NoInput
    /\ qsrc = NoQuality
    /\ qtext = <<>>
    /\ qres = Err
    /\ qtext2 = <<>>
    /\ qop = "init"
    /\ OtherIdle

CallParseStar ==
    /\ op' = "parse_star"
    /\ res' = parse_star(values)
    /\ UNCHANGED <<newVars, otherVars, values, ty, iterVars, qVars>>

CallParseList1Star ==
    /\ op' = "parse_list1_star"
    /\ res' = parse_list1_star(values, ty)
    /\ UNCHANGED <<newVars, otherVars, values, ty, iterVars, qVars>>

NextHeaders ==
    \/ CallParseList0
    \/ CallParseList1
    \/ CallParseStar
    \/ CallParseList1Star

SpecHeaders == InitHeaders /\ [][NextHeaders]_vars

\* C13 (as claimed): parse_list0 on the line "a;q=0.1, b;q=0.9" gives the
\* item a with weight 100 and then the item b with weight 900, in the order
\* of the input.
C13_QualityListInOrder ==
    (op = "parse_list0" /\ ty = "Quality"
        /\ values = Ex_q_a_b) =>
        res = Ok(<< [item |-> [coding |-> "Unregistered", s |-> <<97>>], weight |-> 100],
                    [item |-> [coding |-> "Unregistered", s |-> <<98>>], weight |-> 900] >>)

\* a line with one '*' and nothing else but spaces and tabs
IsWildcardLine(x) ==
    /\ \E i \in 1..Len(x) :
           /\ x[i] = STAR
           /\ \A j \in 1..Len(x) : j # i => (x[j] = SP \/ x[j] = TAB)

\* C19: parse_list1_star on a single line that is one '*' with any spaces
\* and tabs around it succeeds with the empty list; '*' is not parsed as an
\* element: the result is not what parsing the line as a list gives (an
\* error for entity tags, as '*' is no entity tag).
C19_WildcardIsEmptyList ==
    (op = "parse_list1_star" /\ Len(values) = 1 /\ IsWildcardLine(values[1])) =>
        /\ res = Ok(<<>>)
        /\ res # parse_list1(values, ty)
        /\ ty = "EntityTag" => parse_list1(values, ty) = Err

C19_Witness ==
    /\ op = "parse_list1_star"
    /\ ty = "EntityTag"
    /\ values = Ex_star_ows
    /\ res = Ok(<<>>)

\* C20 (as claimed): parse_list1_star on an input that is no wildcard gives
\* what parse_list1 gives; the line "1", "2" gives the two strong tags 1
\* and 2 in that order.
C20_NonWildcardIsList1 ==
    /\ (op = "parse_list1_star" /\ ~(Len(values) = 1 /\ IsWildcardLine(values[1]))) =>
           res = parse_list1(values, ty)
    /\ (op = "parse_list1_star" /\ ty = "EntityTag"
           /\ values = Ex_tags_1_2) =>
           res = Ok(<< [weak |-> FALSE, tag |-> <<49>>], [weak |-> FALSE, tag |-> <<50>>] >>)

\* the number of '*' among the first k bytes of x
RECURSIVE CountStars(_, _)
CountStars(x, k) ==
    IF k = 0 THEN 0
    ELSE (IF x[k] = STAR THEN 1 ELSE 0) + CountStars(x, k - 1)

\* a '*' together with a byte that is no '*', space or tab
MixesWildcard(x) ==
    /\ CountStars(x, Len(x)) >= 1
    /\ \E j \in 1..Len(x) : x[j] # STAR /\ x[j] # SP /\ x[j] # TAB

\* C21 (as claimed): parse_list1_star returns an error for a line that has
\* the wildcard together with other content, such as *, "1", and for a line
\* in which '*' appears more than once.
C21_MixedWildcardFails ==
    (op = "parse_list1_star" /\ ty = "EntityTag" /\ Len(values) = 1
        /\ (MixesWildcard(values[1]) \/ CountStars(values[1], Len(values[1])) >= 2)) =>
        res = Err

----------------------------------------------------------------------------
(* The serialize helpers, one call on the iterator or the sink at a time   *)

SerItems(t) ==
    IF t = "EntityTag" THEN {Strong1, Weak2}
    ELSE {[item |-> Coding_from_str(<<120>>).val, weight |-> WeightMax],
          [item |-> Coding_from_str(GZIP).val, weight |-> 500],
          [item |-> Coding_from_str(<<120>>).val, weight |-> 0]}

SerLists(t) == UNION {[1..n -> SerItems(t)] : n \in 0..MaxElems}

InitSerialize ==
    /\ values = <<>>
    /\ line = 0
    /\ column = 0
    /\ yielded = <<>>
    /\ exhausted = FALSE
    /\ extra = 0
    /\ ty = "none"
    /\ op = "none"
    /\ res = Err
    /\ QualityIdle
    /\ OtherIdle
    /\ CodingIdle
    /\ ParseWeightIdle
    /\ sty \in HeaderTypes
    /\ svalues \in SerLists(sty)
    /\ sfail \in 0..MaxFail
    /\ sop = "none"
    /\ scalls = <<>>
    /\ snext = 0
    /\ scur = 0
    /\ sout = <<>>
    /\ swrites = 0
    /\ sres = NoResult
    /\ slog = <<>>

serUnchanged == <<values, iterVars, parseVars, qVars, otherVars, cVars, pVars>>

\* the helper returns when it has no call left to make
Returned(r, rest) == IF ~r.ok THEN r ELSE IF rest = <<>> THEN Ok(Unit) ELSE NoResult

\* the helper name is entered with the calls it will make
Enter(name, calls) ==
    /\ sop = "none"
    /\ sop' = name
    /\ scalls' = calls
    /\ sres' = Returned(Ok(Unit), calls)
    /\ UNCHANGED <<sty, svalues, snext, scur, sout, swrites, sfail, slog>>
    /\ UNCHANGED serUnchanged

\* serialize_value(iter, &svalues[1])
CallSerializeValue ==
    /\ Len(svalues) = 1
    /\ Enter("serialize_value", serialize_value_calls(sty, svalues[1]))

\* serialize_list(iter, &svalues)
CallSerializeList ==
    Enter("serialize_list", serialize_list_calls(sty, svalues))

\* serialize_list_star(iter, &svalues)
CallSerializeListStar ==
    Enter("serialize_list_star", serialize_list_star_calls(sty, svalues))

\* iter.next().unwrap(): the iterator hands out a new, empty sink
TakeSink ==
    /\ scalls # <<>>
    /\ Head(scalls).kind = "next"
    /\ snext' = snext + 1
    /\ scur' = snext + 1
    /\ sout' = Append(sout, <<>>)
    /\ slog' = Append(slog, [call |-> "next", sink |-> snext + 1, n |-> 0, ok |-> TRUE])
    /\ scalls' = Tail(scalls)
    /\ sres' = Returned(Ok(Unit), Tail(scalls))
    /\ UNCHANGED <<sty, svalues, sop, swrites, sfail>>
    /\ UNCHANGED serUnchanged

\* a write the sink accepts: all the bytes arrive
WriteOk ==
    /\ scalls # <<>>
    /\ Head(scalls).kind = "write"
    /\ swrites + 1 # sfail
    /\ swrites' = swrites + 1
    /\ sout' = [sout EXCEPT ![scur] = @ \o Head(scalls).bytes]
    /\ slog' = Append(slog, [call |-> "write", sink |-> scur, n |-> swrites + 1, ok |-> TRUE])
    /\ scalls' = Try(Ok(Unit), Tail(scalls))
    /\ sres' = Returned(Ok(Unit), scalls')
    /\ UNCHANGED <<sty, svalues, sop, snext, scur, sfail>>
    /\ UNCHANGED serUnchanged

\* a write the sink fails: none or all but the last of the bytes arrive
WriteFails ==
    /\ scalls # <<>>
    /\ Head(scalls).kind = "write"
    /\ swrites + 1 = sfail
    /\ swrites' = swrites + 1
    /\ \E k \in {0, Len(Head(scalls).bytes) - 1} :
           /\ k >= 0
           /\ sout' = [sout EXCEPT ![scur] = @ \o SubSeq(Head(scalls).bytes, 1, k)]
    /\ slog' = Append(slog, [call |-> "write", sink |-> scur, n |-> swrites + 1, ok |-> FALSE])
    /\ scalls' = Try(IoErr(swrites + 1), Tail(scalls))
    /\ sres' = Returned(IoErr(swrites + 1), scalls')
    /\ UNCHANGED <<sty, svalues, sop, snext, scur, sfail>>
    /\ UNCHANGED serUnchanged

NextSerialize ==
    \/ CallSerializeValue
    \/ CallSerializeList
    \/ CallSerializeListStar
    \/ TakeSink
    \/ WriteOk
    \/ WriteFails

SpecSerialize == InitSerialize /\ [][NextSerialize]_vars

\* the helper has returned
SerDone == sop # "none" /\ sres # NoResult

\* the Display form of an element
DisplayForm(t, v) == IF t = "EntityTag" THEN EntityTag_fmt(v) ELSE Quality_fmt(v)

\* the Display forms of vals[1..n] with ", " between neighbours
RECURSIVE JoinDisplay(_, _, _)
JoinDisplay(t, vals, n) ==
    IF n = 0 THEN <<>>
    ELSE IF n = 1 THEN DisplayForm(t, vals[1])
    ELSE JoinDisplay(t, vals, n - 1) \o <<COMMA, SP>> \o DisplayForm(t, vals[n])

\* C22: serialize_list_star writes exactly the byte '*' to one sink for an
\* empty list, and for a non-empty list makes the calls serialize_list makes
\* and writes the elements joined by ", ", with no '*'.
C22_ListStarWrites ==
    (sop = "serialize_list_star" /\ SerDone /\ sres.ok) =>
        IF svalues = <<>> THEN sout = << <<STAR>> >>
        ELSE /\ sout = << JoinDisplay(sty, svalues, Len(svalues)) >>
             /\ serialize_list_star_calls(sty, svalues) = serialize_list_calls(sty, svalues)
             /\ \A i \in 1..Len(sout[1]) : sout[1][i] # STAR

C22_Witness ==
    /\ sop = "serialize_list_star"
    /\ svalues = <<>>
    /\ sres = Ok(Unit)
    /\ sout = << <<STAR>> >>

\* C23: serialize_list writes to one sink the Display forms of the elements
\* in list order with exactly ", " between two of them, nothing before the
\* first and nothing after the last; a list of one element is written as
\* that element.
C23_ListJoinedByCommaSpace ==
    (sop = "serialize_list" /\ SerDone /\ sres.ok) =>
        /\ sout = << JoinDisplay(sty, svalues, Len(svalues)) >>
        /\ Len(svalues) = 1 => sout = << DisplayForm(sty, svalues[1]) >>

C23_Witness ==
    /\ sop = "serialize_list"
    /\ svalues = <<Strong1, Weak2>>
    /\ sres = Ok(Unit)
    /\ sout = << <<DQUOTE, 49, DQUOTE, COMMA, SP, 87, 47, DQUOTE, 50, DQUOTE>> >>

\* C24: during a call of serialize_value, serialize_list or
\* serialize_list_star the iterator's next() is called exactly once, before
\* any write; every write goes to the sink it gave; no second sink is
\* taken; serialize_list of an empty list takes one sink and writes nothing.
C24_SinkProtocol ==
    sop # "none" =>
        /\ snext <= 1
        /\ \A i \in 1..Len(slog) :
               IF i = 1 THEN slog[i].call = "next"
               ELSE slog[i].call = "write" /\ slog[i].sink = 1
        /\ SerDone => (snext = 1 /\ Len(sout) = 1)
        /\ (SerDone /\ sop = "serialize_list" /\ svalues = <<>>) =>
               (sout = << <<>> >> /\ swrites = 0)

C24_Witness ==
    /\ sop = "serialize_list"
    /\ svalues = <<>>
    /\ SerDone
    /\ snext = 1
    /\ sout = << <<>> >>

FailedWrites == {i \in 1..Len(slog) : slog[i].call = "write" /\ ~slog[i].ok}

\* C25: a serialize helper returns an error only when a write on the sink
\* failed, and returns the error of that write; when every write succeeds it
\* returns Ok; after a failed write no separator or element is written.
C25_ErrorsComeFromSink ==
    /\ \A i \in FailedWrites : i = Len(slog) /\ sres = IoErr(slog[i].n)
    /\ (SerDone /\ FailedWrites = {}) => sres = Ok(Unit)
    /\ (SerDone /\ ~sres.ok) => FailedWrites # {}

C25_Witness ==
    /\ sop = "serialize_list"
    /\ Len(svalues) = 2
    /\ sfail = 4
    /\ sres = IoErr(4)
    /\ swrites = 4

----------------------------------------------------------------------------
(* Coding: from_str on a text, fmt on the Coding parsed, from_str on that  *)

to_ascii_uppercase(c) == IF c >= 97 /\ c <= 122 THEN c - 32 ELSE c

\* name with the byte at place k in upper case
UpperAt(name, k) == [i \in 1..Len(name) |-> IF i = k THEN to_ascii_uppercase(name[i]) ELSE name[i]]

UpperAll(name) == [i \in 1..Len(name) |-> to_ascii_uppercase(name[i])]

\* 'b', 'r', 'B', 'x', '-', '1'
CodingAlphabet == {98, 114, 66, 120, 45, 49}

\* every registered name and alias as written, in upper case, and with one
\* byte in upper case; each of them with one byte more and one byte less;
\* and every short text
CodingTexts ==
    LET names == {CodingNames[i].name : i \in 1..Len(CodingNames)}
        cased == names \cup {UpperAll(n) : n \in names}
                       \cup UNION {{UpperAt(n, k) : k \in 1..Len(n)} : n \in names}
    IN cased \cup {Append(n, 114) : n \in cased}
             \cup {SubSeq(n, 1, Len(n) - 1) : n \in cased}
             \cup UNION {[1..m -> CodingAlphabet] : m \in 0..MaxCodingLen}

InitCoding ==
    /\ values = <<>>
    /\ line = 0
    /\ column = 0
    /\ yielded = <<>>
    /\ exhausted = FALSE
    /\ extra = 0
    /\ ty = "Coding"
    /\ op = "none"
    /\ res = Err
    /\ QualityIdle
    /\ OtherIdle
    /\ SerializeIdle
    /\ ParseWeightIdle
    /\ cin \in CodingTexts
    /\ cop = "none"
    /\ cres = Err
    /\ ctext = <<>>
    /\ cres2 = Err

codingUnchanged == <<values, iterVars, parseVars, qVars, otherVars, sVars, pVars>>

\* cin.parse::<Coding>()
CallCodingFromStr ==
    /\ cop = "none"
    /\ cres' = Coding_from_str(cin)
    /\ cop' = "parsed"
    /\ UNCHANGED <<cin, ctext, cres2>>
    /\ UNCHANGED codingUnchanged

\* Display::fmt of the Coding parsed
CallCodingFmt ==
    /\ cop = "parsed"
    /\ cres.ok
    /\ ctext' = Coding_fmt(cres.val)
    /\ cop' = "formatted"
    /\ UNCHANGED <<cin, cres, cres2>>
    /\ UNCHANGED codingUnchanged

\* ctext.parse::<Coding>()
CallCodingReparse ==
    /\ cop = "formatted"
    /\ cres2' = Coding_from_str(ctext)
    /\ cop' = "reparsed"
    /\ UNCHANGED <<cin, cres, ctext>>
    /\ UNCHANGED codingUnchanged

NextCoding == CallCodingFromStr \/ CallCodingFmt \/ CallCodingReparse

SpecCoding == InitCoding /\ [][NextCoding]_vars

\* s with its ASCII letters in lower case
Lowered(s) == [i \in 1..Len(s) |-> IF s[i] \in 65..90 THEN s[i] + 32 ELSE s[i]]

\* the rows of the registry whose name or alias is s but for ASCII case
MatchingRows(s) == {i \in 1..Len(CodingNames) : Lowered(s) = CodingNames[i].name}

IsAlias(name) == Len(name) >= 2 /\ name[1] = 120 /\ name[2] = 45

\* C26: Coding::from_str never fails; it ignores ASCII case for every
\* registered name and maps the aliases x-compress and x-gzip to Compress
\* and Gzip; it returns Unregistered(s) only when s is no registered name
\* or alias; Display writes the canonical lower-case name; and the Display
\* form of a parsed Coding parses to a Coding equal to it.
C26_CodingParseAndDisplay ==
    /\ cop # "none" =>
           /\ cres.ok
           /\ \A i \in MatchingRows(cin) :
                  cres.val = [coding |-> CodingNames[i].coding, s |-> <<>>]
           /\ cres.val.coding = "Unregistered" <=> MatchingRows(cin) = {}
           /\ cres.val.coding = "Unregistered" => cres.val.s = cin
    /\ (cop \in {"formatted", "reparsed"} /\ cres.val.coding # "Unregistered") =>
           /\ ctext = Lowered(ctext)
           /\ ~IsAlias(ctext)
           /\ \E i \in 1..Len(CodingNames) :
                  CodingNames[i].name = ctext /\ CodingNames[i].coding = cres.val.coding
    /\ cop = "reparsed" => (cres2.ok /\ Coding_eq(cres2.val, cres.val))

C26_Witness ==
    /\ cop = "reparsed"
    /\ cin = <<88, 45, 71, 90, 73, 80>>
    /\ cres = Ok([coding |-> "Gzip", s |-> <<>>])
    /\ ctext = GZIP
    /\ cres2 = cres

\* C27 (as claimed): EntityTag::from_str returns Ok or Err for every text,
\* the empty text, a lone double quote and W/" included, and never panics.
C27_FromStrTotal ==
    eop = "parsed" => (eout # "panic" /\ eres # Panic)

\* C28: the Display form of every tag built by new, weak or strong or by
\* parsing parses to a tag with the same weak flag and the same tag; and
\* the Display form of the tag parsed from a text is that text.
C28_TextRoundTrip ==
    /\ eop = "reparsed" =>
           /\ eres.ok
           /\ eres.val.weak = etags[1].weak
           /\ eres.val.tag = etags[1].tag
    /\ eop = "formatted" => etext = ein

C28_Witness ==
    /\ eop = "reparsed"
    /\ ein = <<>>
    /\ etags = << [weak |-> TRUE, tag |-> <<49>>] >>
    /\ etext = <<87, 47, DQUOTE, 49, DQUOTE>>
    /\ eres = Ok([weak |-> TRUE, tag |-> <<49>>])

----------------------------------------------------------------------------
(* The cursor of the tokenizer *)

\* (l1, c1) comes before (l2, c2)
CursorBefore(l1, c1, l2, c2) == l1 < l2 \/ (l1 = l2 /\ c1 < c2)

\* the length of the line the cursor is on, 0 past the last line
CurrentLineLen == IF line < Len(values) THEN Len(values[line + 1]) ELSE 0

TotalBytes == SumLens([i \in 1..Len(values) |-> Len(values[i])], Len(values))

\* C29: a call of next() never moves (line, column) backwards, keeps line at
\* most the number of lines and column at most the length of the current
\* line, and moves the cursor forward when it returns an element; at most
\* as many elements are yielded as the input has bytes; and after next()
\* has returned None every later call returns None.
C29_CursorMovesForward ==
    /\ [](line <= Len(values) /\ column <= CurrentLineLen)
    /\ [](Len(yielded) <= TotalBytes)
    /\ [][~CursorBefore(line', column', line, column)]_vars
    /\ [][Len(yielded') > Len(yielded) => CursorBefore(line, column, line', column')]_vars
    /\ [][exhausted => (exhausted' /\ yielded' = yielded)]_vars

C29_Witness ==
    /\ values = Ex_a_b
    /\ Len(yielded) = 2
    /\ exhausted
    /\ extra = MaxExtraCalls
    /\ line = 2 /\ column = 0

----------------------------------------------------------------------------
(* parse_weight on a text, and Quality::from_str on an element that begins *)
(* with that text                                                          *)

\* "0." and up to MaxDigits of the digits 1 and 8
DigitTexts == {<<DIGIT0, DOT>> \o f : f \in UNION {[1..m -> {DIGIT1, 56}] : m \in 0..MaxDigits}}

ParseWeightTexts == WeightTexts \cup DigitTexts

\* ";q=1"
Q_ONE == <<SEMICOLON>> \o QEQ \o <<DIGIT1>>

InitParseWeight ==
    /\ values = <<>>
    /\ line = 0
    /\ column = 0
    /\ yielded = <<>>
    /\ exhausted = FALSE
    /\ extra = 0
    /\ ty = "Coding"
    /\ op = "none"
    /\ res = Err
    /\ OtherIdle
    /\ SerializeIdle
    /\ CodingIdle
    /\ build \in {"debug", "release"}
    /\ pwin \in ParseWeightTexts
    /\ pwop = "none"
    /\ pwres = Err
    /\ qin = [item |-> pwin, sep |-> <<SEMICOLON>> \o QEQ, param |-> <<DIGIT1>>, hasq |-> TRUE]
    /\ qsrc = NoQuality
    /\ qtext = pwin \o Q_ONE
    /\ qres = Err
    /\ qtext2 = <<>>
    /\ qop = "init"

\* parse_weight(pwin)
CallParseWeight ==
    /\ pwop = "none"
    /\ pwres' = parse_weight(pwin, build)
    /\ pwop' = "called"
    /\ UNCHANGED <<values, iterVars, parseVars, qVars, otherVars, sVars, cVars, pwin>>

\* qtext.parse::<Quality<Coding>>()
CallParseWeightElement == CallFromStr

NextParseWeight == CallParseWeight \/ CallParseWeightElement

SpecParseWeight == InitParseWeight /\ [][NextParseWeight]_vars

\* C30 (as claimed): parse_weight never overflows its u16 total and returns
\* only values in 0..=1000, so parsing a quality element neither overflows
\* nor trips the assertion of Weight::new.
C30_ParseWeightInRange ==
    /\ pwop = "called" =>
           /\ pwres.kind # "panic"
           /\ pwres.kind = "some" => pwres.val \in 0..WeightMax
    /\ qop = "parsed" => qres # Panic

====
